---------------------------- MODULE Spec2Model ----------------------------
(***************************************************************************)
(* State reconciliation and mutation-delta protocol of the BYMR client     *)
(* (src/bymr_api/client.py, src/bymr_api/models.py).                       *)
(*                                                                         *)
(* Encoding of Python values.                                              *)
(*   - a dict is a function whose DOMAIN is the dict's key set;            *)
(*     d.get(k, v) is Get(d, k, v);                                        *)
(*   - the empty dict {} and the empty list [] are both the empty          *)
(*     function <<>>;                                                      *)
(*   - None is the record PyNone; an attribute that was never assigned is  *)
(*     the record Unset;                                                   *)
(*   - version, baseid and lastupdate can hold a JSON number or a Python   *)
(*     str (the Session Descriptor defaults them to the str "0"), so they  *)
(*     are carried as their Python repr: "128" is the int 128 and "'0'"    *)
(*     is the str "0";                                                     *)
(*   - the values inside a building descriptor are JSON scalars or null:   *)
(*     <<n>> is the scalar n and <<>> is null.                             *)
(***************************************************************************)
EXTENDS Integers, Sequences, FiniteSets, TLC

PyNone == [py |-> "None"]
Unset == [py |-> "unset"]

EmptyDict == <<>>
EmptyList == <<>>

\* dict.get(k, default)
Get(d, k, default) == IF k \in DOMAIN d THEN d[k] ELSE default

(***************************************************************************)
(* models.py : Building, BuildingData                                      *)
(***************************************************************************)
BuildingRequired == {"id", "t", "X", "Y"}

\* the optional attributes Building.to_dict copies when they are not None
BuildingEmitted ==
    {"l", "st", "cP", "rCP", "pr", "cU", "rPS", "mq", "rIP", "upl", "upg", "cB", "fz"}

\* every attribute the dataclass declares
BuildingAttrs == BuildingRequired \cup BuildingEmitted \cup {"fort"}

\* Building(**building_data) raises TypeError on a missing required or an
\* unknown keyword
BuildingAccepts(bd) ==
    /\ BuildingRequired \subseteq DOMAIN bd
    /\ DOMAIN bd \subseteq BuildingAttrs

\* Building(**building_data): the attributes not given are None
BuildingNew(bd) == [a \in BuildingAttrs |-> Get(bd, a, <<>>)]

Building_to_dict(b) ==
    [k \in BuildingRequired \cup {a \in BuildingEmitted : b[a] # <<>>} |-> b[k]]

BuildingData_accepts(data) == \A k \in DOMAIN data : BuildingAccepts(data[k])

BuildingData_from_dict(data) == [k \in DOMAIN data |-> BuildingNew(data[k])]

BuildingData_to_dict(bs) == [k \in DOMAIN bs |-> Building_to_dict(bs[k])]

(***************************************************************************)
(* models.py : the nested records of a base                               *)
(***************************************************************************)
DefaultCapacity == 10000

Resources_default ==
    [r1 |-> 0, r2 |-> 0, r3 |-> 0, r4 |-> 0,
     r1max |-> DefaultCapacity, r2max |-> DefaultCapacity,
     r3max |-> DefaultCapacity, r4max |-> DefaultCapacity]

Resources_from_dict(data) ==
    [r1 |-> Get(data, "r1", 0), r2 |-> Get(data, "r2", 0),
     r3 |-> Get(data, "r3", 0), r4 |-> Get(data, "r4", 0),
     r1max |-> Get(data, "r1max", DefaultCapacity),
     r2max |-> Get(data, "r2max", DefaultCapacity),
     r3max |-> Get(data, "r3max", DefaultCapacity),
     r4max |-> Get(data, "r4max", DefaultCapacity)]

\* asdict(self)
Resources_to_dict(r) == r

AIAttacks_from_dict(data) ==
    [nextAttack |-> Get(data, "nextAttack", 0),
     sessionsSinceLastAttack |-> Get(data, "sessionsSinceLastAttack", 0),
     lastattack |-> Get(data, "lastattack", 0),
     attackPreference |-> Get(data, "attackPreference", 0)]

AIAttacks_to_dict(a) == a

BuildingResources_from_dict(data) == [t |-> Get(data, "t", 0)]

BuildingResources_to_dict(b) == [t |-> b.t]

Achievement_from_dict(data) ==
    [completed |-> Get(data, "c", EmptyDict), stats |-> Get(data, "s", EmptyDict)]

Achievement_to_dict(a) == [c |-> a.completed, s |-> a.stats]

PopupData_from_dict(data) ==
    [popupStates |-> Get(data, "popupStates", EmptyDict),
     lastDialog |-> Get(data, "lastDialog", 0)]

PopupData_to_dict(p) == p

Stats_from_dict(data) ==
    [moga |-> Get(data, "moga", 0), mg |-> Get(data, "mg", 0),
     updateid_mr3 |-> Get(data, "updateid_mr3", 0), mob |-> Get(data, "mob", 0),
     updateid |-> Get(data, "updateid", 0), inferno |-> Get(data, "inferno", 0),
     updateid_mr2 |-> Get(data, "updateid_mr2", 2), mobg |-> Get(data, "mobg", 0),
     mp |-> Get(data, "mp", 0),
     popupdata |-> PopupData_from_dict(Get(data, "popupdata", EmptyDict)),
     achievements |-> Achievement_from_dict(Get(data, "achievements", EmptyDict)),
     other |-> Get(data, "other", EmptyDict)]

Stats_to_dict(s) ==
    [s EXCEPT !.popupdata = PopupData_to_dict(s.popupdata),
              !.achievements = Achievement_to_dict(s.achievements)]

Locker_from_dict(data) == [t |-> Get(data, "t", 0)]

Locker_to_dict(l) == [t |-> l.t]

Academy_from_dict(data) == [level |-> Get(data, "level", 1)]

Academy_to_dict(a) == [level |-> a.level]

MonsterBaiter_from_dict(data) ==
    [musk |-> Get(data, "musk", 0), queue |-> Get(data, "queue", EmptyDict),
     attackDir |-> Get(data, "attackDir", 0)]

MonsterBaiter_to_dict(m) == m

Mushroom_from_dict(data) == [s |-> Get(data, "s", 0), l |-> Get(data, "l", EmptyList)]

Mushroom_to_dict(m) == [s |-> m.s, l |-> m.l]

MonsterData_from_dict(data) ==
    [h |-> Get(data, "h", EmptyList), hcc |-> Get(data, "hcc", EmptyList),
     overdrivetime |-> Get(data, "overdrivetime", 0),
     space |-> Get(data, "space", 200), saved |-> Get(data, "saved", 0),
     housed |-> Get(data, "housed", EmptyDict),
     hstage |-> Get(data, "hstage", EmptyList), hid |-> Get(data, "hid", EmptyList),
     finishtime |-> Get(data, "finishtime", 0),
     overdrivepower |-> Get(data, "overdrivepower", 0),
     hcount |-> Get(data, "hcount", 0)]

MonsterData_to_dict(m) == m

(***************************************************************************)
(* models.py : UserData (the Session Descriptor)                           *)
(***************************************************************************)
UserDataKeys == {"version", "baseid", "type", "lastupdate"}

\* UserData(version=..., baseid=..., lastupdate=..., type=...)
UserData(version, baseid, lastupdate, type) ==
    [version |-> version, baseid |-> baseid, type |-> type, lastupdate |-> lastupdate]

UserData_to_dict(u) ==
    [version |-> u.version, baseid |-> u.baseid, type |-> u.type,
     lastupdate |-> u.lastupdate]

\* cls(**data) raises TypeError unless data has exactly the four keywords
UserData_accepts(data) == DOMAIN data = UserDataKeys

UserData_from_dict(data) ==
    UserData(data["version"], data["baseid"], data["lastupdate"], data["type"])


(***************************************************************************)
(* models.py : BaseData (the Base Record)                                  *)
(*                                                                         *)
(* BaseData declares about a hundred attributes.  update_from_dict treats  *)
(* them in three ways; the model carries every attribute of the second and *)
(* third kind and ten of the first kind (the others are assigned by the    *)
(* same statement, self.f = data.get("f", self.f)):                        *)
(*   SimpleFields  self.f = data.get("f", self.f)                          *)
(*   RebuiltFields self.f = F.from_dict(data.get("f", {}))                 *)
(*   KeptFields    self.f = F.from_dict(data.get("f", <dict of self.f>))   *)
(***************************************************************************)
SimpleFields ==
    {"version", "baseid", "basesaveid", "basename", "lastupdate", "damage",
     "points", "basevalue", "champion", "type"}

RebuiltFields ==
    {"buildingdata", "resources", "aiattacks", "stats", "lockerdata", "academy",
     "monsters", "monsterbaiter", "iresources"}

KeptFields == {"buildingresources", "mushrooms"}

BaseFields == SimpleFields \cup RebuiltFields \cup KeptFields

\* the dataclass defaults, BaseData(version, baseid, basesaveid, basename)
BaseData_new(version, baseid, basesaveid, basename) ==
    [version |-> version, baseid |-> baseid, basesaveid |-> basesaveid,
     basename |-> basename, lastupdate |-> "0",
     buildingdata |-> EmptyDict,
     buildingresources |-> [t |-> 0],
     resources |-> Resources_default,
     damage |-> 0,
     aiattacks |-> [nextAttack |-> 0, sessionsSinceLastAttack |-> 0,
                    lastattack |-> 0, attackPreference |-> 0],
     basevalue |-> 0, points |-> 0,
     stats |-> Stats_from_dict(EmptyDict),
     lockerdata |-> EmptyDict, academy |-> EmptyDict,
     monsters |-> MonsterData_from_dict(EmptyDict),
     monsterbaiter |-> MonsterBaiter_from_dict(EmptyDict),
     champion |-> EmptyList,
     mushrooms |-> [s |-> 0, l |-> EmptyList],
     iresources |-> Resources_default,
     type |-> "main"]

BaseData_to_dict(b) ==
    [version |-> b.version, baseid |-> b.baseid, basesaveid |-> b.basesaveid,
     basename |-> b.basename, lastupdate |-> b.lastupdate,
     buildingdata |-> BuildingData_to_dict(b.buildingdata),
     buildingresources |-> BuildingResources_to_dict(b.buildingresources),
     resources |-> Resources_to_dict(b.resources),
     damage |-> b.damage,
     aiattacks |-> AIAttacks_to_dict(b.aiattacks),
     basevalue |-> b.basevalue, points |-> b.points,
     stats |-> Stats_to_dict(b.stats),
     lockerdata |-> [k \in DOMAIN b.lockerdata |-> Locker_to_dict(b.lockerdata[k])],
     academy |-> [k \in DOMAIN b.academy |-> Academy_to_dict(b.academy[k])],
     monsters |-> MonsterData_to_dict(b.monsters),
     monsterbaiter |-> MonsterBaiter_to_dict(b.monsterbaiter),
     champion |-> b.champion,
     mushrooms |-> Mushroom_to_dict(b.mushrooms),
     iresources |-> Resources_to_dict(b.iresources),
     type |-> b.type]

\* update_from_dict raises (TypeError out of Building(**building_data)) when
\* it reaches the buildingdata statement with a descriptor Building rejects
BaseData_update_raises(data) ==
    ~BuildingData_accepts(Get(data, "buildingdata", EmptyDict))

\* the five statements that precede the buildingdata statement
BaseData_update_head(self, data) ==
    [self EXCEPT !.version = Get(data, "version", self.version),
                 !.baseid = Get(data, "baseid", self.baseid),
                 !.basesaveid = Get(data, "basesaveid", self.basesaveid),
                 !.basename = Get(data, "basename", self.basename),
                 !.lastupdate = Get(data, "lastupdate", self.lastupdate)]

\* a variant that adds the response's resource counters to the local ones
BaseData_update_from_dict_adds(self, data) ==
    [self EXCEPT
        !.version = Get(data, "version", self.version),
        !.lastupdate = Get(data, "lastupdate", self.lastupdate),
        !.points = Get(data, "points", self.points),
        !.resources =
            [self.resources EXCEPT
                !.r1 = @ + Get(Get(data, "resources", EmptyDict), "r1", 0),
                !.r2 = @ + Get(Get(data, "resources", EmptyDict), "r2", 0)]]

\* update_from_dict run to its end
BaseData_update_from_dict(self, data) ==
    [version |-> Get(data, "version", self.version),
     baseid |-> Get(data, "baseid", self.baseid),
     basesaveid |-> Get(data, "basesaveid", self.basesaveid),
     basename |-> Get(data, "basename", self.basename),
     lastupdate |-> Get(data, "lastupdate", self.lastupdate),
     buildingdata |-> BuildingData_from_dict(Get(data, "buildingdata", EmptyDict)),
     buildingresources |->
         BuildingResources_from_dict(
             Get(data, "buildingresources", [t |-> self.buildingresources.t])),
     resources |-> Resources_from_dict(Get(data, "resources", EmptyDict)),
     damage |-> Get(data, "damage", self.damage),
     aiattacks |-> AIAttacks_from_dict(Get(data, "aiattacks", EmptyDict)),
     basevalue |-> Get(data, "basevalue", self.basevalue),
     points |-> Get(data, "points", self.points),
     stats |-> Stats_from_dict(Get(data, "stats", EmptyDict)),
     lockerdata |->
         [k \in DOMAIN Get(data, "lockerdata", EmptyDict) |->
             Locker_from_dict(data["lockerdata"][k])],
     academy |->
         [k \in DOMAIN Get(data, "academy", EmptyDict) |->
             Academy_from_dict(data["academy"][k])],
     monsters |-> MonsterData_from_dict(Get(data, "monsters", EmptyDict)),
     monsterbaiter |-> MonsterBaiter_from_dict(Get(data, "monsterbaiter", EmptyDict)),
     champion |-> Get(data, "champion", self.champion),
     mushrooms |->
         Mushroom_from_dict(
             Get(data, "mushrooms", [s |-> self.mushrooms.s, l |-> self.mushrooms.l])),
     iresources |-> Resources_from_dict(Get(data, "iresources", EmptyDict)),
     type |-> Get(data, "type", self.type)]

\* BaseData.from_dict(data): the constructor, then update_from_dict
BaseData_from_dict(data) ==
    BaseData_update_from_dict(
        BaseData_new(Get(data, "version", "128"), Get(data, "baseid", "0"),
                     Get(data, "basesaveid", 0), Get(data, "basename", "")),
        data)

(***************************************************************************)
(* client.py : the transport adapter                                       *)
(*                                                                         *)
(* An exchange is what the one request/response exchange of _make_request  *)
(* produced: a response with a status and a parsed body, a socket timeout  *)
(* or a connection failure.  A result is [raised, value]: raised is the    *)
(* name of the exception raised ("" when the call returned) and value the  *)
(* returned value.  A value handed to _make_request as a field is carried   *)
(* with its Python type: VInt, VStr, VBool, VNone, VDict (the sequence of   *)
(* its <<key, value>> items in insertion order) and VList.                 *)
(***************************************************************************)
VInt(n) == [t |-> "int", v |-> n]
VStr(str) == [t |-> "str", v |-> str]
VBool(b) == [t |-> "bool", v |-> b]
VNone == [t |-> "none"]
VDict(items) == [t |-> "dict", items |-> items]
VList(items) == [t |-> "list", items |-> items]

\* json.dumps(v, separators=(item_separator, key_separator)) on the values
\* that occur: no string holds a character that JSON escapes
RECURSIVE Dumps(_, _, _), DumpItems(_, _, _), DumpPairs(_, _, _)
Dumps(v, item_separator, key_separator) ==
    CASE v.t = "dict" -> "{" \o DumpPairs(v.items, item_separator, key_separator) \o "}"
      [] v.t = "list" -> "[" \o DumpItems(v.items, item_separator, key_separator) \o "]"
      [] v.t = "str" -> "\"" \o v.v \o "\""
      [] v.t = "int" -> ToString(v.v)
      [] v.t = "bool" -> IF v.v THEN "true" ELSE "false"
      [] v.t = "none" -> "null"

DumpItems(items, item_separator, key_separator) ==
    IF items = <<>> THEN ""
    ELSE Dumps(Head(items), item_separator, key_separator)
         \o (IF Len(items) = 1 THEN ""
             ELSE item_separator \o DumpItems(Tail(items), item_separator, key_separator))

DumpPairs(items, item_separator, key_separator) ==
    IF items = <<>> THEN ""
    ELSE "\"" \o Head(items)[1] \o "\"" \o key_separator
         \o Dumps(Head(items)[2], item_separator, key_separator)
         \o (IF Len(items) = 1 THEN ""
             ELSE item_separator \o DumpPairs(Tail(items), item_separator, key_separator))

\* a variant with json.dumps' default separators
json_dumps_default_separators(v) == Dumps(v, ", ", ": ")

\* json.dumps(value, separators=(",", ":")) (line 256)
json_dumps(v) == Dumps(v, ",", ":")

\* str(value) on an int, a str or a bool (line 260)
Str(v) ==
    CASE v.t = "int" -> ToString(v.v)
      [] v.t = "str" -> v.v
      [] v.t = "bool" -> IF v.v THEN "True" ELSE "False"

\* the form field of one value (lines 255-260)
FormField(value) ==
    IF value.t \in {"dict", "list"} THEN json_dumps(value)
    ELSE IF value.t = "none" THEN "null"
    ELSE Str(value)

\* form_data (lines 251-260): data is the sequence of its <<key, value>>
\* items; the percent-quoting urlencode then applies is left out
form_data(data) == [i \in 1..Len(data) |-> <<data[i][1], FormField(data[i][2])>>]

Returned(v) == [raised |-> "", value |-> v]

Raised(e) == [raised |-> e, value |-> PyNone]

\* a BYMRAPIError or one of its subclasses (exceptions.py): status_code is
\* <<>> for None or <<n>>, response is PyNone or the parsed body
APIError(e, status_code, response) ==
    [raised |-> e, value |-> PyNone, status_code |-> status_code, response |-> response]

\* _safe_json_parse (lines 311-326): an exchange carries body, the value of
\* its JSON text, or text when the text is not JSON
_safe_json_parse(x) ==
    IF "body" \in DOMAIN x THEN x.body ELSE [raw_response |-> x.text]

\* a variant that takes 500 alone for a server error
_make_request_only_500(x) ==
    IF x.kind = "timeout" THEN APIError("NetworkError", <<>>, PyNone)
    ELSE IF x.kind = "connection" THEN APIError("NetworkError", <<>>, PyNone)
    ELSE IF x.kind = "request_exception" THEN APIError("BYMRAPIError", <<>>, PyNone)
    ELSE IF x.status = 401
        THEN APIError("AuthenticationError", <<x.status>>, _safe_json_parse(x))
    ELSE IF x.status = 400
        THEN APIError("ValidationError", <<x.status>>, _safe_json_parse(x))
    ELSE IF x.status = 500
        THEN APIError("ServerError", <<x.status>>, _safe_json_parse(x))
    ELSE IF x.status # 200
        THEN APIError("BYMRAPIError", <<x.status>>, _safe_json_parse(x))
    ELSE Returned(_safe_json_parse(x))

\* _make_request from the exchange on (lines 263-309); x is the exchange
_make_request(x) ==
    IF x.kind = "timeout" THEN APIError("NetworkError", <<>>, PyNone)
    ELSE IF x.kind = "connection" THEN APIError("NetworkError", <<>>, PyNone)
    ELSE IF x.kind = "request_exception" THEN APIError("BYMRAPIError", <<>>, PyNone)
    ELSE IF x.status = 401
        THEN APIError("AuthenticationError", <<x.status>>, _safe_json_parse(x))
    ELSE IF x.status = 400
        THEN APIError("ValidationError", <<x.status>>, _safe_json_parse(x))
    ELSE IF 500 <= x.status /\ x.status < 600
        THEN APIError("ServerError", <<x.status>>, _safe_json_parse(x))
    ELSE IF x.status # 200
        THEN APIError("BYMRAPIError", <<x.status>>, _safe_json_parse(x))
    ELSE Returned(_safe_json_parse(x))

\* log entries of one call
Request(endpoint, data) == [ev |-> "request", endpoint |-> endpoint, data |-> data]

Reconciled == [ev |-> "reconcile"]

Persisted == [ev |-> "persist"]

(***************************************************************************)
(* client.py : the client object and the two persisted documents           *)
(***************************************************************************)
VARIABLES
    alive,       \* "none": no client yet; "ready": constructed; "failed": __init__ raised
    auto_sync,   \* self.auto_sync
    base_data,   \* self.base_data: PyNone or a BaseData
    user_data,   \* self.user_data: Unset, PyNone or a UserData
    state_file,  \* self.state_file is set (a path was given)
    user_file,   \* self.user_file is set (a path was given)
    file_state,  \* the document at state_file: Absent or the JSON written
    file_user,   \* the document at user_file: Absent, Garbage or the JSON written
    call,        \* the latest call on the client: its arguments, log and result
    resync,      \* history: the latest two calls were synchronizations that both
                 \* succeeded on the same response
    cq,          \* the run of conquer_entire_map in progress
    server       \* the four counters the server stores for the base; followed
                 \* where the server is modelled, constant elsewhere

vars ==
    <<alive, auto_sync, base_data, user_data, state_file, user_file,
      file_state, file_user, call, resync, cq, server>>

Absent == [py |-> "absent"]
Garbage == [py |-> "not json"]

REQUIRED_FIELDS == {"baseid", "basesaveid", "points", "basevalue", "buildingdata", "champion"}

\* the attributes and documents a call can read or change
Self ==
    [auto_sync |-> auto_sync, base_data |-> base_data, user_data |-> user_data,
     state_file |-> state_file, user_file |-> user_file,
     file_state |-> file_state, file_user |-> file_user]

\* out: the outcome of a call: the client after it, its log and its result
Out(c, log, res) == [c |-> c, log |-> log, res |-> res]

\* _save_state_to_file; px is what the file system did: "ok", "fail_state"
\* (the first document could not be written) or "fail_user" (the second)
_save_state_to_file(c, px) ==
    IF ~c.state_file \/ ~c.user_file THEN Out(c, <<>>, Raised("ValueError"))
    ELSE IF px = "fail_state" THEN Out(c, <<>>, Raised("OSError"))
    ELSE IF px = "fail_user"
        THEN Out([c EXCEPT !.file_state = BaseData_to_dict(c.base_data)],
                 <<>>, Raised("OSError"))
    ELSE Out([c EXCEPT !.file_state = BaseData_to_dict(c.base_data),
                       !.file_user = UserData_to_dict(c.user_data)],
             <<Persisted>>, Returned(PyNone))

\* a variant that merges the response into the Session Descriptor
Reconcile_merge_descriptor(c, response) ==
    IF BaseData_update_raises(response)
        THEN Out(IF c.base_data = PyNone THEN c
                 ELSE [c EXCEPT !.base_data = BaseData_update_head(c.base_data, response)],
                 <<>>, Raised("TypeError"))
    ELSE Out([c EXCEPT
                 !.base_data =
                     IF c.base_data = PyNone THEN BaseData_from_dict(response)
                     ELSE BaseData_update_from_dict(c.base_data, response),
                 !.user_data =
                     UserData(Get(response, "version", c.user_data.version),
                              Get(response, "baseid", c.user_data.baseid),
                              Get(response, "lastupdate", c.user_data.lastupdate),
                              Get(response, "type", c.user_data.type))],
             <<Reconciled>>, Returned(PyNone))

\* the reconciliation statements of sync_with_server (lines 204-214)
Reconcile(c, response) ==
    IF BaseData_update_raises(response)
        THEN Out(IF c.base_data = PyNone THEN c
                 ELSE [c EXCEPT !.base_data = BaseData_update_head(c.base_data, response)],
                 <<>>, Raised("TypeError"))
    ELSE Out([c EXCEPT
                 !.base_data =
                     IF c.base_data = PyNone THEN BaseData_from_dict(response)
                     ELSE BaseData_update_from_dict(c.base_data, response),
                 !.user_data =
                     UserData(Get(response, "version", "'0'"),
                              Get(response, "baseid", "'0'"),
                              Get(response, "lastupdate", "'0'"),
                              Get(response, "type", "build"))],
             <<Reconciled>>, Returned(PyNone))

\* a variant that restores the client when the documents cannot be written
SyncRoundTrip_rolls_back(c, x, px) ==
    LET req == Request("/base/updatesaved", UserData_to_dict(c.user_data))
        server_base_data == _make_request(x)
    IN  IF server_base_data.raised # "" THEN Out(c, <<req>>, server_base_data)
        ELSE
            LET rec == Reconcile(c, server_base_data.value)
            IN  IF rec.res.raised # "" THEN Out(rec.c, <<req>> \o rec.log, rec.res)
                ELSE
                    LET sav == _save_state_to_file(rec.c, px)
                    IN  IF sav.res.raised # ""
                            THEN Out(c, <<req>> \o rec.log \o sav.log, sav.res)
                        ELSE Out(sav.c, <<req>> \o rec.log \o sav.log,
                                 Returned(server_base_data.value))

\* the part of sync_with_server after its two guards
SyncRoundTrip(c, x, px) ==
    LET req == Request("/base/updatesaved", UserData_to_dict(c.user_data))
        server_base_data == _make_request(x)
    IN  IF server_base_data.raised # "" THEN Out(c, <<req>>, server_base_data)
        ELSE
            LET rec == Reconcile(c, server_base_data.value)
            IN  IF rec.res.raised # "" THEN Out(rec.c, <<req>> \o rec.log, rec.res)
                ELSE
                    LET sav == _save_state_to_file(rec.c, px)
                    IN  IF sav.res.raised # ""
                            THEN Out(sav.c, <<req>> \o rec.log \o sav.log, sav.res)
                        ELSE Out(sav.c, <<req>> \o rec.log \o sav.log,
                                 Returned(server_base_data.value))

\* a variant that tests the Session Descriptor before the auto_sync flag
sync_with_server_guards_swapped(c, x, px) ==
    IF c.user_data = Unset THEN Out(c, <<>>, Raised("AttributeError"))
    ELSE IF c.user_data = PyNone THEN Out(c, <<>>, Raised("ValueError"))
    ELSE IF ~c.auto_sync THEN Out(c, <<>>, Returned(PyNone))
    ELSE SyncRoundTrip(c, x, px)

\* a variant that returns quietly when there is no Session Descriptor
sync_with_server_quiet(c, x, px) ==
    IF ~c.auto_sync THEN Out(c, <<>>, Returned(PyNone))
    ELSE IF c.user_data = Unset \/ c.user_data = PyNone THEN Out(c, <<>>, Returned(PyNone))
    ELSE SyncRoundTrip(c, x, px)

\* sync_with_server; x is the exchange of its request, px the file system
sync_with_server(c, x, px) ==
    IF ~c.auto_sync THEN Out(c, <<>>, Returned(PyNone))
    ELSE IF c.user_data = Unset THEN Out(c, <<>>, Raised("AttributeError"))
    ELSE IF c.user_data = PyNone THEN Out(c, <<>>, Raised("ValueError"))
    ELSE SyncRoundTrip(c, x, px)

\* a variant that sends the whole record under the mutation
RequestData_whole(base, mutation) ==
    LET base_data_dict == BaseData_to_dict(base)
    IN  [field \in DOMAIN base_data_dict \cup DOMAIN mutation |->
            IF field \in DOMAIN mutation THEN mutation[field]
            ELSE base_data_dict[field]]

\* the request body mutate_server builds (lines 354-359)
RequestData(base, mutation) ==
    LET base_data_dict == BaseData_to_dict(base)
    IN  [field \in REQUIRED_FIELDS \cup DOMAIN mutation |->
            IF field \in DOMAIN mutation THEN mutation[field]
            ELSE base_data_dict[field]]

\* a variant that synchronizes before it lets a failed save propagate
mutate_server_syncs_on_failure(c, mutation, xs, x, px) ==
    IF c.base_data = PyNone THEN Out(c, <<>>, Raised("AttributeError"))
    ELSE
        LET req == Request("/base/save", RequestData(c.base_data, mutation))
            response == _make_request(xs)
            syn == sync_with_server(c, x, px)
        IN  IF response.raised # "" THEN Out(syn.c, <<req>> \o syn.log, response)
            ELSE IF syn.res.raised # "" THEN Out(syn.c, <<req>> \o syn.log, syn.res)
            ELSE Out(syn.c, <<req>> \o syn.log, Returned(response.value))

\* a variant that returns what the synchronization returned
mutate_server_returns_sync(c, mutation, xs, x, px) ==
    IF c.base_data = PyNone THEN Out(c, <<>>, Raised("AttributeError"))
    ELSE
        LET req == Request("/base/save", RequestData(c.base_data, mutation))
            response == _make_request(xs)
        IN  IF response.raised # "" THEN Out(c, <<req>>, response)
            ELSE
                LET syn == sync_with_server(c, x, px)
                IN  Out(syn.c, <<req>> \o syn.log, syn.res)

\* mutate_server; xs is the exchange of the save request, x and px those of
\* the synchronization that follows
mutate_server(c, mutation, xs, x, px) ==
    IF c.base_data = PyNone THEN Out(c, <<>>, Raised("AttributeError"))
    ELSE
        LET req == Request("/base/save", RequestData(c.base_data, mutation))
            response == _make_request(xs)
        IN  IF response.raised # "" THEN Out(c, <<req>>, response)
            ELSE
                LET syn == sync_with_server(c, x, px)
                IN  IF syn.res.raised # "" THEN Out(syn.c, <<req>> \o syn.log, syn.res)
                    ELSE Out(syn.c, <<req>> \o syn.log, Returned(response.value))

\* a variant that sends the absolute target
Delta_absolute(target, current) == IF target # <<>> THEN target[1] ELSE 0

\* the mutation set_resources builds (lines 508-524); a target is <<>> for
\* None ("keep current") or <<n>>
Delta(target, current) == IF target # <<>> THEN target[1] - current ELSE 0

ResourceMutation(base, r1, r2, r3, r4) ==
    [resources |->
        [r1 |-> Delta(r1, base.resources.r1), r2 |-> Delta(r2, base.resources.r2),
         r3 |-> Delta(r3, base.resources.r3), r4 |-> Delta(r4, base.resources.r4),
         r1max |-> base.resources.r1max, r2max |-> base.resources.r2max,
         r3max |-> base.resources.r3max, r4max |-> base.resources.r4max]]

\* set_resources: returns None whatever mutate_server returned
set_resources(c, r1, r2, r3, r4, xs, x, px) ==
    IF c.base_data = PyNone THEN Out(c, <<>>, Raised("ValueError"))
    ELSE
        LET m == mutate_server(c, ResourceMutation(c.base_data, r1, r2, r3, r4), xs, x, px)
        IN  IF m.res.raised # "" THEN m ELSE Out(m.c, m.log, Returned(PyNone))

\* _load_user_from_file (lines 139-153), reached only when state_file is set
_load_user_from_file(c) ==
    IF ~c.user_file THEN Out(c, <<>>, Raised("TypeError"))
    ELSE IF c.file_user = Absent THEN Out(c, <<>>, Returned(FALSE))
    ELSE IF c.file_user = Garbage THEN Out(c, <<>>, Raised("JSONDecodeError"))
    ELSE IF ~UserData_accepts(c.file_user) THEN Out(c, <<>>, Raised("TypeError"))
    ELSE Out([c EXCEPT !.user_data = UserData_from_dict(c.file_user)],
             <<>>, Returned(TRUE))

\* a variant that swallows whatever the synchronization raised
_initialize_state_swallows(c, x, px) ==
    LET ld == IF c.state_file THEN _load_user_from_file(c)
              ELSE Out(c, <<>>, Returned(FALSE))
    IN  IF ld.res.raised # "" THEN ld
        ELSE IF ld.c.user_data = Unset THEN Out(ld.c, <<>>, Raised("AttributeError"))
        ELSE LET syn == sync_with_server(ld.c, x, px)
             IN  Out(syn.c, syn.log, Returned(PyNone))

\* _initialize_state (lines 105-114): the attribute user_data is read whether
\* or not _load_user_from_file assigned it
_initialize_state(c, x, px) ==
    LET ld == IF c.state_file THEN _load_user_from_file(c)
              ELSE Out(c, <<>>, Returned(FALSE))
    IN  IF ld.res.raised # "" THEN ld
        ELSE IF ld.c.user_data = Unset THEN Out(ld.c, <<>>, Raised("AttributeError"))
        ELSE sync_with_server(ld.c, x, px)

\* __init__ up to the call of _initialize_state (lines 67-86)
NewClient(sf, uf, fs, fu) ==
    [auto_sync |-> TRUE, base_data |-> PyNone, user_data |-> Unset,
     state_file |-> sf, user_file |-> uf, file_state |-> fs, file_user |-> fu]

(***************************************************************************)
(* The environment: what the server answers and what the disk holds        *)
(***************************************************************************)
\* the largest absolute target a caller passes to set_resources
MaxTarget == 6

Targets == {<<>>, <<MaxTarget>>}

BuildingsA == "1" :> [id |-> <<1>>, t |-> <<14>>, X |-> <<0>>, Y |-> <<0>>, l |-> <<2>>]

\* a descriptor with a key the Building dataclass does not declare
BuildingsUnknownKey ==
    "1" :> [id |-> <<1>>, t |-> <<14>>, X |-> <<0>>, Y |-> <<0>>, hp |-> <<100>>]

ResponseFull ==
    [version |-> "128", baseid |-> "7", basesaveid |-> 11, basename |-> "home",
     lastupdate |-> "100", type |-> "build", damage |-> 0, points |-> 5,
     basevalue |-> 9, champion |-> <<[t |-> 1]>>,
     buildingdata |-> BuildingsA,
     buildingresources |-> [t |-> 50],
     resources |-> [r1 |-> 5, r2 |-> 0, r3 |-> 3, r4 |-> 9,
                    r1max |-> 20000, r2max |-> 20000, r3max |-> 20000, r4max |-> 30000],
     aiattacks |-> [nextAttack |-> 77, sessionsSinceLastAttack |-> 1,
                    lastattack |-> 66, attackPreference |-> 2],
     stats |-> [moga |-> 1, mg |-> 0, updateid_mr3 |-> 0, mob |-> 0, updateid |-> 4,
                inferno |-> 0, updateid_mr2 |-> 2, mobg |-> 0, mp |-> 3,
                popupdata |-> [popupStates |-> EmptyDict, lastDialog |-> 8],
                achievements |-> [c |-> [a1 |-> 1], s |-> [starterkit |-> 1]],
                other |-> EmptyDict],
     lockerdata |-> "C2" :> [t |-> 2],
     academy |-> "C1" :> [level |-> 3],
     monsters |-> [h |-> EmptyList, hcc |-> EmptyList, overdrivetime |-> 0,
                   space |-> 300, saved |-> 0, housed |-> [C1 |-> 4],
                   hstage |-> EmptyList, hid |-> EmptyList, finishtime |-> 0,
                   overdrivepower |-> 0, hcount |-> 4],
     monsterbaiter |-> [musk |-> 10, queue |-> EmptyDict, attackDir |-> 90],
     mushrooms |-> [s |-> 9, l |-> EmptyList],
     iresources |-> [r1 |-> 1, r2 |-> 1, r3 |-> 1, r4 |-> 1,
                     r1max |-> 500, r2max |-> 500, r3max |-> 500, r4max |-> 500]]

\* a response that carries only a few fields
ResponsePartial == [version |-> "129", lastupdate |-> "101", points |-> 6, error |-> 0]

\* a 200 response whose body was not JSON (_safe_json_parse)
ResponseRaw == [raw_response |-> "<html>"]

ResponseUnknownKey == [version |-> "130", baseid |-> "8", buildingdata |-> BuildingsUnknownKey]

Responses == {ResponseFull, ResponsePartial, ResponseUnknownKey}

SaveResponse == [error |-> 0, basesaveid |-> 12]

Ok(body) == [kind |-> "response", status |-> 200, body |-> body]

Failures ==
    {[kind |-> "response", status |-> 500, body |-> [message |-> "down"]],
     [kind |-> "timeout"]}

SyncExchanges == {Ok(r) : r \in Responses} \cup Failures

SaveExchanges == {Ok(SaveResponse)} \cup Failures

\* what the file system does when the two documents are written
PersistOutcomes == {"ok", "fail_state", "fail_user"}

\* the file system is only asked when the exchange before it succeeded
PersistAfter(x) ==
    IF x.kind = "response" /\ x.status = 200 THEN PersistOutcomes ELSE {"ok"}

SyncAfter(xs) ==
    IF xs.kind = "response" /\ xs.status = 200 THEN SyncExchanges ELSE {Ok(ResponseRaw)}

Mutations ==
    {[points |-> 9], [purchase |-> <<"MUSHROOM2", 1>>],
     [champion |-> <<[t |-> 2]>>, basename |-> "fort"]}

\* the documents a user can have left at user_file before the first run
SeedUserFiles ==
    {Absent, Garbage,
     [version |-> "128", baseid |-> "7", type |-> "build", lastupdate |-> "0"],
     [version |-> "128", baseid |-> "7"]}

NoCall == [op |-> "", arg |-> <<>>, log |-> <<>>, res |-> Returned(PyNone)]

\* the value of server where the server's store is not followed
NoCounters == [r1 |-> 0, r2 |-> 0, r3 |-> 0, r4 |-> 0]

Idle == [pc |-> "idle"]

(***************************************************************************)
(* The calls on the client                                                 *)
(***************************************************************************)
Install(c) ==
    /\ auto_sync' = c.auto_sync
    /\ base_data' = c.base_data
    /\ user_data' = c.user_data
    /\ state_file' = c.state_file
    /\ user_file' = c.user_file
    /\ file_state' = c.file_state
    /\ file_user' = c.file_user

\* a call that ran a whole synchronization round-trip and returned its response
Synced(c) ==
    c.op = "sync_with_server" /\ c.res.raised = "" /\ c.res.value # PyNone

Record(op, arg, out) ==
    /\ Install(out.c)
    /\ UNCHANGED server
    /\ call' = [op |-> op, arg |-> arg, log |-> out.log, res |-> out.res]
    /\ resync' = (Synced(call) /\ Synced(call') /\ call'.arg = call.arg)

\* BYMRClient(bearer_token, state_file=..., user_file=...)
Construct ==
    /\ cq = Idle
    /\ \E sf \in BOOLEAN, uf \in BOOLEAN, x \in SyncExchanges :
        \E px \in PersistAfter(x) :
            LET out == _initialize_state(NewClient(sf, uf, file_state, file_user), x, px)
            IN  /\ Record("__init__", <<sf, uf, x, file_user>>, out)
                /\ alive' = IF out.res.raised = "" THEN "ready" ELSE "failed"
    /\ UNCHANGED cq

\* set_auto_sync(bool)
SetAutoSync ==
    /\ alive = "ready" /\ cq = Idle
    /\ \E b \in BOOLEAN :
        Record("set_auto_sync", <<b>>,
               Out([Self EXCEPT !.auto_sync = b], <<>>, Returned(PyNone)))
    /\ UNCHANGED <<alive, cq>>

SyncWithServer ==
    /\ alive = "ready" /\ cq = Idle
    /\ \E x \in SyncExchanges :
        \E px \in PersistAfter(x) :
            Record("sync_with_server", <<x>>, sync_with_server(Self, x, px))
    /\ UNCHANGED <<alive, cq>>

MutateServer ==
    /\ alive = "ready" /\ cq = Idle
    /\ \E mutation \in Mutations, xs \in SaveExchanges :
        \E x \in SyncAfter(xs) :
            \E px \in PersistAfter(x) :
                Record("mutate_server", <<mutation, xs, x>>,
                       mutate_server(Self, mutation, xs, x, px))
    /\ UNCHANGED <<alive, cq>>

SetResources ==
    /\ alive = "ready" /\ cq = Idle
    /\ \E r1 \in Targets, r2 \in Targets, r3 \in Targets, r4 \in Targets,
          xs \in SaveExchanges :
        \E x \in SyncAfter(xs) :
            \E px \in PersistAfter(x) :
                Record("set_resources", <<r1, r2, r3, r4, xs, x>>,
                       set_resources(Self, r1, r2, r3, r4, xs, x, px))
    /\ UNCHANGED <<alive, cq>>

Init ==
    /\ alive = "none"
    /\ auto_sync = TRUE
    /\ base_data = PyNone
    /\ user_data = Unset
    /\ state_file = FALSE
    /\ user_file = FALSE
    /\ file_state = Absent
    /\ file_user \in SeedUserFiles
    /\ call = NoCall
    /\ resync = FALSE
    /\ cq = Idle
    /\ server = NoCounters

Next ==
    \/ Construct
    \/ SetAutoSync
    \/ SyncWithServer
    \/ MutateServer

Spec == Init /\ [][Next]_vars

\* the clients a caller can hold when a method is entered, as far as the
\* attribute types go: base_data and user_data may each be None
InitApi ==
    /\ alive = "ready"
    /\ auto_sync \in BOOLEAN
    /\ base_data \in {PyNone, BaseData_from_dict(ResponseFull)}
    /\ user_data \in {PyNone, UserData("128", "7", "0", "build")}
    /\ state_file = TRUE
    /\ user_file = TRUE
    /\ file_state = Absent
    /\ file_user = Absent
    /\ call = NoCall
    /\ resync = FALSE
    /\ cq = Idle
    /\ server = NoCounters

SpecApi == InitApi /\ [][Next]_vars

\* set_resources on a constructed client, between synchronizations
InitResources ==
    /\ alive = "ready"
    /\ auto_sync = TRUE
    /\ base_data \in {BaseData_from_dict(r) : r \in {ResponseFull, ResponsePartial}}
    /\ user_data = UserData("128", "7", "0", "build")
    /\ state_file = TRUE
    /\ user_file = TRUE
    /\ file_state = Absent
    /\ file_user = UserData_to_dict(user_data)
    /\ call = NoCall
    /\ resync = FALSE
    /\ cq = Idle
    /\ server = NoCounters

NextResources ==
    \/ SetResources

SpecResources == InitResources /\ [][NextResources]_vars

(***************************************************************************)
(* client.py : destroy, take over, finalize                                *)
(***************************************************************************)
\* a variant that passes the resources of the snapshot through
DestroySaveData_keeps_resources(target_base, baseid, attacker_champion, now) ==
    [attackloot |-> [r1 |-> 0, r2 |-> 0, r3 |-> 0, r4 |-> 0],
     mushrooms |-> Get(target_base, "mushrooms", [s |-> 0, l |-> EmptyList]),
     monsterupdate |-> EmptyList,
     lastupdate |-> "0",
     baseseed |-> Get(target_base, "baseseed", 0),
     destroyed |-> 1,
     monsters |-> Get(target_base, "monsters", EmptyDict),
     buildingdata |-> Get(target_base, "buildingdata", EmptyDict),
     flinger |-> Get(target_base, "flinger", 0),
     aiattacks |-> Get(target_base, "aiattacks", EmptyDict),
     attackid |-> Get(target_base, "attackid", 0),
     catapult |-> Get(target_base, "catapult", 0),
     version |-> Get(target_base, "version", "128"),
     resources |-> Get(target_base, "resources",
                       [r1 |-> 0, r2 |-> 0, r3 |-> 0, r4 |-> 0,
                        r1max |-> 0, r2max |-> 0, r3max |-> 0, r4max |-> 0]),
     tutorialstage |-> Get(target_base, "tutorialstage", 205),
     baseid |-> baseid,
     timeplayed |-> 3,
     basevalue |-> Get(target_base, "basevalue", 0),
     over |-> 1,
     buildinghealthdata |-> Get(target_base, "buildinghealthdata", EmptyDict),
     buildingresources |-> Get(target_base, "buildingresources", EmptyDict),
     researchdata |-> Get(target_base, "researchdata", EmptyDict),
     basesaveid |-> Get(target_base, "basesaveid", 0),
     damage |-> 100,
     basename |-> Get(target_base, "basename", ""),
     stats |-> Get(target_base, "stats", EmptyDict),
     inventory |-> Get(target_base, "inventory", EmptyDict),
     frontpage |-> Get(target_base, "frontpage", EmptyDict),
     attackreport |-> "",
     lockerdata |-> Get(target_base, "lockerdata", EmptyDict),
     protect |-> 0,
     quests |-> Get(target_base, "quests", EmptyDict),
     lootreport |-> [isInferno |-> FALSE, r1 |-> 0, r2 |-> 0, r3 |-> 0, r4 |-> 0,
                     name |-> Get(target_base, "name", "")],
     monsterbaiter |-> Get(target_base, "monsterbaiter", EmptyDict),
     empirevalue |-> Get(target_base, "empirevalue", 0),
     achieved |-> EmptyList,
     clienttime |-> now,
     points |-> Get(target_base, "points", 0),
     siege |-> PyNone,
     attackersiege |-> PyNone,
     academy |-> Get(target_base, "academy", EmptyDict),
     attackerchampion |-> IF attacker_champion = <<>> THEN EmptyList ELSE attacker_champion[1],
     effects |-> EmptyList]

\* the record destroy_base saves (lines 637-697), built from the attack-mode
\* snapshot target_base; now is int(time.time()); attacker_champion is <<>>
\* for None and <<l>> for the list l
DestroySaveData(target_base, baseid, attacker_champion, now) ==
    [attackloot |-> [r1 |-> 0, r2 |-> 0, r3 |-> 0, r4 |-> 0],
     mushrooms |-> Get(target_base, "mushrooms", [s |-> 0, l |-> EmptyList]),
     monsterupdate |-> EmptyList,
     lastupdate |-> "0",
     baseseed |-> Get(target_base, "baseseed", 0),
     destroyed |-> 1,
     monsters |-> Get(target_base, "monsters", EmptyDict),
     buildingdata |-> Get(target_base, "buildingdata", EmptyDict),
     flinger |-> Get(target_base, "flinger", 0),
     aiattacks |-> Get(target_base, "aiattacks", EmptyDict),
     attackid |-> Get(target_base, "attackid", 0),
     catapult |-> Get(target_base, "catapult", 0),
     version |-> Get(target_base, "version", "128"),
     resources |-> [r1 |-> 0, r2 |-> 0, r3 |-> 0, r4 |-> 0,
                    r1max |-> 0, r2max |-> 0, r3max |-> 0, r4max |-> 0],
     tutorialstage |-> Get(target_base, "tutorialstage", 205),
     baseid |-> baseid,
     timeplayed |-> 3,
     basevalue |-> Get(target_base, "basevalue", 0),
     over |-> 1,
     buildinghealthdata |-> Get(target_base, "buildinghealthdata", EmptyDict),
     buildingresources |-> Get(target_base, "buildingresources", EmptyDict),
     researchdata |-> Get(target_base, "researchdata", EmptyDict),
     basesaveid |-> Get(target_base, "basesaveid", 0),
     damage |-> 100,
     basename |-> Get(target_base, "basename", ""),
     stats |-> Get(target_base, "stats", EmptyDict),
     inventory |-> Get(target_base, "inventory", EmptyDict),
     frontpage |-> Get(target_base, "frontpage", EmptyDict),
     attackreport |-> "",
     lockerdata |-> Get(target_base, "lockerdata", EmptyDict),
     protect |-> 0,
     quests |-> Get(target_base, "quests", EmptyDict),
     lootreport |-> [isInferno |-> FALSE, r1 |-> 0, r2 |-> 0, r3 |-> 0, r4 |-> 0,
                     name |-> Get(target_base, "name", "")],
     monsterbaiter |-> Get(target_base, "monsterbaiter", EmptyDict),
     empirevalue |-> Get(target_base, "empirevalue", 0),
     achieved |-> EmptyList,
     clienttime |-> now,
     points |-> Get(target_base, "points", 0),
     siege |-> PyNone,
     attackersiege |-> PyNone,
     academy |-> Get(target_base, "academy", EmptyDict),
     attackerchampion |-> IF attacker_champion = <<>> THEN EmptyList ELSE attacker_champion[1],
     effects |-> EmptyList]

\* the record save_outpost saves (lines 800-838)
OutpostSaveData(base, now) ==
    [mushrooms |-> Get(base, "mushrooms", [s |-> 0, l |-> EmptyList]),
     monsterupdate |-> EmptyList,
     baseseed |-> Get(base, "baseseed", 0),
     buildinghealthdata |-> Get(base, "buildinghealthdata", EmptyDict),
     monsters |-> Get(base, "monsters", EmptyDict),
     buildingdata |-> Get(base, "buildingdata", EmptyDict),
     flinger |-> Get(base, "flinger", 0),
     aiattacks |-> Get(base, "aiattacks", EmptyDict),
     clienttime |-> now,
     catapult |-> Get(base, "catapult", 0),
     version |-> Get(base, "version", "128"),
     resources |-> Get(base, "resources", EmptyDict),
     tutorialstage |-> Get(base, "tutorialstage", 205),
     baseid |-> Get(base, "baseid", "None"),
     timeplayed |-> Get(base, "timeplayed", 0) + 1,
     basevalue |-> Get(base, "basevalue", 0),
     buildingresources |-> Get(base, "buildingresources", EmptyDict),
     rewards |-> Get(base, "rewards", EmptyDict),
     researchdata |-> Get(base, "researchdata", EmptyDict),
     basesaveid |-> Get(base, "basesaveid", 0),
     damage |-> Get(base, "damage", 0),
     basename |-> Get(base, "basename", "basename"),
     stats |-> Get(base, "stats", EmptyDict),
     inventory |-> Get(base, "inventory", EmptyDict),
     frontpage |-> Get(base, "frontpage", EmptyDict),
     lockerdata |-> Get(base, "lockerdata", EmptyDict),
     events |-> Get(base, "events", EmptyDict),
     quests |-> Get(base, "quests", EmptyDict),
     monsterbaiter |-> Get(base, "monsterbaiter", EmptyDict),
     empirevalue |-> Get(base, "empirevalue", 0),
     achieved |-> Get(base, "achieved", EmptyList),
     academy |-> Get(base, "academy", EmptyDict),
     points |-> Get(base, "points", 0),
     siege |-> PyNone,
     attackersiege |-> PyNone,
     lastupdate |-> Get(base, "lastupdate", "0"),
     effects |-> EmptyList]

\* destroy_base (lines 612-706); xs[1], xs[2] are the exchanges of its requests
destroy_base(c, baseid, attack_data, attacker_champion, xs, now) ==
    IF c.base_data = PyNone THEN Out(c, <<>>, Raised("ValueError"))
    ELSE
        LET load == Request("/base/load",
                        [checkpromotion |-> 1, type |-> "attack", baseid |-> baseid,
                         attackData |-> IF attack_data = PyNone
                                        THEN [monsters |-> EmptyList, champions |-> EmptyList]
                                        ELSE attack_data,
                         userid |-> ""])
            target_base == _make_request(xs[1])
        IN  IF target_base.raised # "" THEN Out(c, <<load>>, target_base)
            ELSE
                LET save == Request("/base/save",
                                DestroySaveData(target_base.value, baseid,
                                                attacker_champion, now))
                IN  Out(c, <<load, save>>, _make_request(xs[2]))

\* takeover_cell (lines 733-747)
takeover_cell(c, baseid, resources, x) ==
    Out(c,
        <<Request("/worldmapv2/takeovercell",
                  [baseid |-> baseid,
                   resources |-> IF resources = PyNone
                                 THEN [r1 |-> 0, r2 |-> 0, r3 |-> 0, r4 |-> 0]
                                 ELSE resources])>>,
        _make_request(x))

\* load_base (lines 773-786)
load_base(c, baseid, load_type, x) ==
    Out(c,
        <<Request("/base/load",
                  [checkpromotion |-> 1, type |-> load_type, baseid |-> baseid,
                   userid |-> ""])>>,
        _make_request(x))

\* save_outpost (lines 798-846)
save_outpost(c, base, x, now) ==
    Out(c, <<Request("/base/save", OutpostSaveData(base, now))>>, _make_request(x))

\* a variant that goes on to the takeover when the destroy step raised
destroy_and_takeover_ignores_destroy(c, baseid, attack_data, attacker_champion, takeover_resources, xs, now) ==
    LET s1 == destroy_base(c, baseid, attack_data, attacker_champion, xs, now)
        s2 == takeover_cell(c, baseid, takeover_resources, xs[3])
    IN  IF s2.res.raised # "" THEN Out(c, s1.log \o s2.log, s2.res)
        ELSE
            LET s3 == load_base(c, baseid, "build", xs[4])
            IN  IF s3.res.raised # "" THEN Out(c, s1.log \o s2.log \o s3.log, s3.res)
                ELSE
                    LET s4 == save_outpost(c, s3.res.value, xs[5], now)
                    IN  Out(c, s1.log \o s2.log \o s3.log \o s4.log, s4.res)

\* destroy_and_takeover (lines 876-888); xs are the exchanges of the five
\* requests it can send
destroy_and_takeover(c, baseid, attack_data, attacker_champion, takeover_resources, xs, now) ==
    LET s1 == destroy_base(c, baseid, attack_data, attacker_champion, xs, now)
    IN  IF s1.res.raised # "" THEN s1
        ELSE
            LET s2 == takeover_cell(c, baseid, takeover_resources, xs[3])
            IN  IF s2.res.raised # "" THEN Out(c, s1.log \o s2.log, s2.res)
                ELSE
                    LET s3 == load_base(c, baseid, "build", xs[4])
                    IN  IF s3.res.raised # "" THEN Out(c, s1.log \o s2.log \o s3.log, s3.res)
                        ELSE
                            LET s4 == save_outpost(c, s3.res.value, xs[5], now)
                            IN  Out(c, s1.log \o s2.log \o s3.log \o s4.log, s4.res)

(***************************************************************************)
(* client.py : area scans                                                  *)
(*                                                                         *)
(* The 'data' of an area response is a dict of dicts, x -> y -> cell, read *)
(* in the order of the JSON text.  It is carried as the sequence of its    *)
(* entries [x, y, cell] in that order.                                     *)
(***************************************************************************)
\* str.lower() on the names that occur
Lower(name) ==
    CASE name = "BOB" -> "bob"
      [] name = "Bob" -> "bob"
      [] name = "Alice" -> "alice"
      [] name = "ALICE" -> "alice"
      [] name = "Carl" -> "carl"
      [] name = "Dan" -> "dan"
      [] OTHER -> name

\* int() on the coordinate keys that occur
ToInt(key) ==
    CASE key = "0" -> 0 [] key = "1" -> 1 [] key = "2" -> 2 [] key = "3" -> 3
      [] key = "4" -> 4 [] key = "5" -> 5

\* a variant that compares the names as they are written
IsTargetCell_case_sensitive(cell_data, current_username, include_wild_monsters) ==
    /\ "bid" \in DOMAIN cell_data
    /\ LET cell_type == Get(cell_data, "b", 0)
       IN  /\ IF include_wild_monsters THEN cell_type \in {1, 3} ELSE cell_type = 3
           /\ ~(cell_type = 3 /\ Get(cell_data, "n", "") = current_username)
    /\ Get(cell_data, "d", 0) # 1

\* the test get_enemy_bases_from_area makes on one cell (lines 996-1020)
IsTargetCell(cell_data, current_username, include_wild_monsters) ==
    /\ "bid" \in DOMAIN cell_data
    /\ LET cell_type == Get(cell_data, "b", 0)
       IN  /\ IF include_wild_monsters THEN cell_type \in {1, 3} ELSE cell_type = 3
           /\ ~(cell_type = 3
                /\ Lower(Get(cell_data, "n", "")) = Lower(current_username))
    /\ Get(cell_data, "d", 0) # 1

\* the dict appended for a target cell (lines 1022-1032)
EnemyBase(e) ==
    [bid |-> e.cell["bid"], name |-> Get(e.cell, "n", ""), uid |-> Get(e.cell, "uid", 0),
     x |-> e.x, y |-> e.y, level |-> Get(e.cell, "l", 0), damage |-> Get(e.cell, "dm", 0)]

get_enemy_bases_from_area(area_response, current_username, include_wild_monsters) ==
    LET data == Get(area_response, "data", <<>>)
        kept == SelectSeq(data,
                    LAMBDA e : IsTargetCell(e.cell, current_username, include_wild_monsters))
    IN  [i \in 1..Len(kept) |-> EnemyBase(kept[i])]

\* get_area (lines 958-972); ex is the exchange of its request
get_area(c, x, y, width, height, ex) ==
    Out(c,
        <<Request("/worldmapv2/getarea",
                  [width |-> width, x |-> x, sendresources |-> 0, y |-> y,
                   height |-> height])>>,
        _make_request(ex))

\* the loop of destroy_all_enemy_bases (lines 1113-1148) from the k-th base
\* on: every exception of an attack is caught and reported; acc is the log,
\* the results and the count so far, xss[k] the exchanges of the k-th attack
RECURSIVE AttackEach(_, _, _, _, _, _, _, _, _)
AttackEach(c, enemy_bases, k, attack_data, attacker_champion, takeover_resources, xss, now, acc) ==
    IF k > Len(enemy_bases) THEN acc
    ELSE
        LET base == enemy_bases[k]
            response == destroy_and_takeover(c, base.bid, attack_data, attacker_champion,
                                             takeover_resources, xss[k], now)
            won == response.res.raised = ""
        IN  AttackEach(c, enemy_bases, k + 1, attack_data, attacker_champion,
                       takeover_resources, xss, now,
                       [log |-> acc.log \o response.log,
                        results |->
                            Append(acc.results,
                                   IF won
                                       THEN [base |-> base, success |-> TRUE,
                                             response |-> response.res.value]
                                   ELSE [base |-> base, success |-> FALSE,
                                         error |-> response.res.raised]),
                        destroyed_count |->
                            IF won THEN acc.destroyed_count + 1 ELSE acc.destroyed_count])

\* a variant that does not look at the error field of the area response
destroy_all_enemy_bases_ignores_error(c, x, y, current_username, attack_data, attacker_champion, takeover_resources, include_wild_monsters, ex, xss, now) ==
    LET area_response == get_area(c, x, y, 10, 10, ex)
    IN  IF area_response.res.raised # "" THEN area_response
        ELSE
            LET enemy_bases ==
                    get_enemy_bases_from_area(area_response.res.value, current_username,
                                              include_wild_monsters)
                done == AttackEach(c, enemy_bases, 1, attack_data, attacker_champion,
                                   takeover_resources, xss, now,
                                   [log |-> area_response.log, results |-> <<>>,
                                    destroyed_count |-> 0])
            IN  IF enemy_bases = <<>>
                    THEN Out(c, area_response.log,
                             Returned([success |-> TRUE, destroyed_count |-> 0,
                                       message |-> "No enemy bases found in the specified area",
                                       enemy_bases |-> <<>>]))
                ELSE Out(c, done.log,
                         Returned([success |-> TRUE,
                                   destroyed_count |-> done.destroyed_count,
                                   total_enemy_bases |-> Len(enemy_bases),
                                   results |-> done.results,
                                   enemy_bases |-> enemy_bases]))

\* destroy_all_enemy_bases (lines 1086-1156) with the default width and
\* height; ex is the exchange of the area scan, xss[k] the exchanges of the
\* attack on the k-th enemy base
destroy_all_enemy_bases(c, x, y, current_username, attack_data, attacker_champion, takeover_resources, include_wild_monsters, ex, xss, now) ==
    LET area_response == get_area(c, x, y, 10, 10, ex)
    IN  IF area_response.res.raised # "" THEN area_response
        ELSE IF Get(area_response.res.value, "error", 1) # 0
            THEN Out(c, area_response.log,
                     Returned([success |-> FALSE, error |-> "Failed to fetch area data",
                               area_response |-> area_response.res.value]))
        ELSE
            LET enemy_bases ==
                    get_enemy_bases_from_area(area_response.res.value, current_username,
                                              include_wild_monsters)
                done == AttackEach(c, enemy_bases, 1, attack_data, attacker_champion,
                                   takeover_resources, xss, now,
                                   [log |-> area_response.log, results |-> <<>>,
                                    destroyed_count |-> 0])
            IN  IF enemy_bases = <<>>
                    THEN Out(c, area_response.log,
                             Returned([success |-> TRUE, destroyed_count |-> 0,
                                       message |-> "No enemy bases found in the specified area",
                                       enemy_bases |-> <<>>]))
                ELSE Out(c, done.log,
                         Returned([success |-> TRUE,
                                   destroyed_count |-> done.destroyed_count,
                                   total_enemy_bases |-> Len(enemy_bases),
                                   results |-> done.results,
                                   enemy_bases |-> enemy_bases]))

\* a variant that keeps one entry for each time a base is found
Put_keeps_duplicates(d, base) == Append(d, base)

\* d[base["bid"]] = base on a dict that keeps insertion order, carried as the
\* sequence of its values
Put(d, base) ==
    IF \E i \in 1..Len(d) : d[i].bid = base.bid
        THEN [i \in 1..Len(d) |-> IF d[i].bid = base.bid THEN base ELSE d[i]]
    ELSE Append(d, base)

RECURSIVE PutAll(_, _)
PutAll(d, bases) ==
    IF bases = <<>> THEN d ELSE PutAll(Put(d, Head(bases)), Tail(bases))

InSeq(v, sq) == \E i \in 1..Len(sq) : sq[i] = v

\* a variant that puts a failed scan on record
ScanOne_records_failure(q, x) ==
    LET area_response == _make_request(x)
        noted == [q EXCEPT !.all_iteration_results =
                    Append(@, [iteration |-> q.iteration, targets_found |-> 0,
                               conquered |-> 0, failed |-> 1,
                               newly_conquered |-> <<>>])]
    IN  IF area_response.raised # "" THEN noted
        ELSE IF Get(area_response.value, "error", 1) # 0 THEN noted
        ELSE
            LET enemy_bases ==
                    get_enemy_bases_from_area(area_response.value, q.current_username,
                                              q.include_wild_monsters)
                wild_bases ==
                    get_enemy_bases_from_area(area_response.value, q.current_username, TRUE)
            IN  [q EXCEPT
                    !.targets_dict = PutAll(@, enemy_bases),
                    !.wild_monsters_dict =
                        PutAll(@, SelectSeq(wild_bases,
                                            LAMBDA base : ~InSeq(base, enemy_bases)))]

\* the body of the scanning loop for one owned base (lines 1232-1271); x is
\* the exchange of get_area.  Every exception is caught.
ScanOne(q, x) ==
    LET area_response == _make_request(x)
    IN  IF area_response.raised # "" THEN q
        ELSE IF Get(area_response.value, "error", 1) # 0 THEN q
        ELSE
            LET enemy_bases ==
                    get_enemy_bases_from_area(area_response.value, q.current_username,
                                              q.include_wild_monsters)
                wild_bases ==
                    get_enemy_bases_from_area(area_response.value, q.current_username, TRUE)
            IN  [q EXCEPT
                    !.targets_dict = PutAll(@, enemy_bases),
                    !.wild_monsters_dict =
                        PutAll(@, SelectSeq(wild_bases,
                                            LAMBDA base : ~InSeq(base, enemy_bases)))]

(***************************************************************************)
(* client.py : conquer_entire_map                                          *)
(*                                                                         *)
(* One run is the record cq.  Its steps are the loop test, one area scan,  *)
(* the choice of this iteration's targets, and one attack.  cells_seen and *)
(* attacks are history: the cells the scans of this iteration returned,    *)
(* and the base ids this iteration attacked, in order; answered is history *)
(* too: every exchange of the latest attack came back with status 200; so  *)
(* is some_scan_ok: a scan of this iteration was answered with error 0.    *)
(***************************************************************************)
\* the cap a caller passes as max_iterations
MaxIterations == 2

Seeds == {{<<0, 0>>}, {<<0, 0>>, <<3, 3>>}}

Usernames == {"bob"}

CellAlice == [x |-> "1", y |-> "0", cell |-> [bid |-> "p1", b |-> 3, n |-> "Alice", d |-> 0]]
CellOwn == [x |-> "0", y |-> "0", cell |-> [bid |-> "me", b |-> 3, n |-> "BOB", d |-> 0]]
CellWild1 == [x |-> "0", y |-> "1", cell |-> [bid |-> "w1", b |-> 1, n |-> "", d |-> 0]]
CellWild2 == [x |-> "1", y |-> "1", cell |-> [bid |-> "w2", b |-> 1]]
CellRuin == [x |-> "2", y |-> "1", cell |-> [bid |-> "p3", b |-> 3, n |-> "Dan", d |-> 1]]
CellDeadWild == [x |-> "2", y |-> "2", cell |-> [bid |-> "w3", b |-> 1, d |-> 1]]
CellBare == [x |-> "0", y |-> "2", cell |-> [b |-> 0]]

AreaQuiet == [error |-> 0, data |-> <<CellOwn, CellRuin, CellDeadWild, CellBare>>]
AreaWild == [error |-> 0, data |-> <<CellOwn, CellWild1, CellWild2>>]
AreaMixed == [error |-> 0, data |-> <<CellWild1, CellAlice>>]
AreaPlayers == [error |-> 0, data |-> <<CellAlice, CellRuin>>]
AreaRefused == [error |-> 5]

AreaExchanges ==
    {Ok(a) : a \in {AreaQuiet, AreaWild, AreaMixed, AreaPlayers, AreaRefused}}
    \cup {[kind |-> "timeout"]}

\* what /base/load answers for a target
TargetSnapshot ==
    [baseid |-> "40", basesaveid |-> 21, version |-> "128", points |-> 3,
     basevalue |-> 4, timeplayed |-> 10, buildingdata |-> BuildingsA,
     resources |-> [r1 |-> 50, r2 |-> 50, r3 |-> 50, r4 |-> 50,
                    r1max |-> 100, r2max |-> 100, r3max |-> 100, r4max |-> 100]]

AttackGoesWell ==
    <<Ok(TargetSnapshot), Ok(SaveResponse), Ok([error |-> 0]),
      Ok(TargetSnapshot), Ok(SaveResponse)>>

\* the exchanges of one destroy_and_takeover: all five succeed, or the k-th fails
AttackExchanges ==
    {AttackGoesWell}
    \cup {[i \in 1..5 |-> IF i < k THEN AttackGoesWell[i] ELSE f] :
            k \in 1..5, f \in Failures}

ClockReadings == {1700000000}

\* lines 1210-1217
ConquerBegin(main_base_coords, current_username, max_iterations, include_wild_monsters) ==
    [pc |-> "while",
     main_base_coords |-> main_base_coords,
     current_username |-> current_username,
     max_iterations |-> max_iterations,
     include_wild_monsters |-> include_wild_monsters,
     owned_bases |-> main_base_coords,
     total_conquered |-> 0,
     iteration |-> 0,
     all_iteration_results |-> <<>>,
     to_scan |-> {},
     targets_dict |-> <<>>,
     wild_monsters_dict |-> <<>>,
     targets |-> <<>>,
     i |-> 0,
     iteration_conquered |-> 0,
     iteration_failed |-> 0,
     newly_conquered |-> <<>>,
     cells_seen |-> {},
     attacks |-> <<>>,
     answered |-> FALSE,
     some_scan_ok |-> FALSE,
     result |-> PyNone]

\* lines 1351-1358
ConquerResult(q) ==
    [q EXCEPT
        !.pc = "done",
        !.result =
            [success |-> TRUE,
             total_conquered |-> q.total_conquered,
             total_owned_bases |-> Cardinality(q.owned_bases),
             iterations |-> q.iteration,
             owned_bases |-> q.owned_bases,
             iteration_results |-> q.all_iteration_results]]

\* a variant whose loop test lets one more iteration through
ConquerLoop_off_by_one(q) ==
    IF q.iteration <= q.max_iterations
        THEN [q EXCEPT !.iteration = @ + 1, !.targets_dict = <<>>,
                       !.wild_monsters_dict = <<>>, !.to_scan = q.owned_bases,
                       !.cells_seen = {}, !.attacks = <<>>, !.some_scan_ok = FALSE,
                       !.pc = "scan"]
    ELSE ConquerResult(q)

\* lines 1219-1227: the loop test and the head of an iteration
ConquerLoop(q) ==
    IF q.iteration < q.max_iterations
        THEN [q EXCEPT !.iteration = @ + 1, !.targets_dict = <<>>,
                       !.wild_monsters_dict = <<>>, !.to_scan = q.owned_bases,
                       !.cells_seen = {}, !.attacks = <<>>, !.some_scan_ok = FALSE,
                       !.pc = "scan"]
    ELSE ConquerResult(q)

BeginAttacks(q, targets) ==
    [q EXCEPT !.targets = targets, !.i = 1, !.iteration_conquered = 0,
              !.iteration_failed = 0, !.newly_conquered = <<>>, !.pc = "attack"]

\* a variant that leaves out the targets whose attack failed in the iteration
\* before
ConquerSelect_skips_failed(q) ==
    LET fresh == SelectSeq(q.targets_dict,
                    LAMBDA base :
                        \/ InSeq(base, q.newly_conquered)
                        \/ \A k \in 1..Len(q.targets) : q.targets[k].bid # base.bid)
    IN  IF fresh = <<>> /\ q.wild_monsters_dict # <<>>
            THEN BeginAttacks(q, <<q.wild_monsters_dict[1]>>)
        ELSE IF fresh = <<>> THEN ConquerResult(q)
        ELSE BeginAttacks(q, fresh)

\* a variant that goes on to the next iteration when nothing is in range
ConquerSelect_no_break(q) ==
    IF q.targets_dict = <<>> /\ q.wild_monsters_dict # <<>>
        THEN BeginAttacks(q, <<q.wild_monsters_dict[1]>>)
    ELSE IF q.targets_dict = <<>> THEN [q EXCEPT !.pc = "while"]
    ELSE BeginAttacks(q, q.targets_dict)

\* a variant that attacks every wild monster found
ConquerSelect_all_wild(q) ==
    IF q.targets_dict = <<>> /\ q.wild_monsters_dict # <<>>
        THEN BeginAttacks(q, q.wild_monsters_dict)
    ELSE IF q.targets_dict = <<>> THEN ConquerResult(q)
    ELSE BeginAttacks(q, q.targets_dict)

\* lines 1274-1294: this iteration's targets, the wild-monster fallback, the
\* break
ConquerSelect(q) ==
    IF q.targets_dict = <<>> /\ q.wild_monsters_dict # <<>>
        THEN BeginAttacks(q, <<q.wild_monsters_dict[1]>>)
    ELSE IF q.targets_dict = <<>> THEN ConquerResult(q)
    ELSE BeginAttacks(q, q.targets_dict)

\* a variant that counts a failed target's coordinates as owned
ConquerAttackOne_owns_failed(q, out) ==
    LET base == q.targets[q.i]
        won == out.res.raised = ""
        q1 == [q EXCEPT
                !.owned_bases = @ \cup {<<ToInt(base.x), ToInt(base.y)>>},
                !.newly_conquered = IF won THEN Append(@, base) ELSE @,
                !.iteration_conquered = IF won THEN @ + 1 ELSE @,
                !.total_conquered = IF won THEN @ + 1 ELSE @,
                !.iteration_failed = IF won THEN @ ELSE @ + 1,
                !.attacks = Append(@, base.bid)]
    IN  IF q.i < Len(q.targets) THEN [q1 EXCEPT !.i = @ + 1]
        ELSE [q1 EXCEPT
                !.all_iteration_results =
                    Append(@, [iteration |-> q1.iteration,
                               targets_found |-> Len(q1.targets),
                               conquered |-> q1.iteration_conquered,
                               failed |-> q1.iteration_failed,
                               newly_conquered |-> q1.newly_conquered]),
                !.pc = "while"]

\* a variant in which a failed attack ends the iteration
ConquerAttackOne_abort_on_failure(q, out) ==
    LET base == q.targets[q.i]
        won == out.res.raised = ""
        q1 == [q EXCEPT
                !.owned_bases =
                    IF won THEN @ \cup {<<ToInt(base.x), ToInt(base.y)>>} ELSE @,
                !.newly_conquered = IF won THEN Append(@, base) ELSE @,
                !.iteration_conquered = IF won THEN @ + 1 ELSE @,
                !.total_conquered = IF won THEN @ + 1 ELSE @,
                !.iteration_failed = IF won THEN @ ELSE @ + 1,
                !.attacks = Append(@, base.bid)]
    IN  IF won /\ q.i < Len(q.targets) THEN [q1 EXCEPT !.i = @ + 1]
        ELSE [q1 EXCEPT
                !.all_iteration_results =
                    Append(@, [iteration |-> q1.iteration,
                               targets_found |-> Len(q1.targets),
                               conquered |-> q1.iteration_conquered,
                               failed |-> q1.iteration_failed,
                               newly_conquered |-> q1.newly_conquered]),
                !.pc = "while"]

\* lines 1296-1333: the attack on targets[i], whose outcome is out, and the
\* iteration report after the last target
ConquerAttackOne(q, out) ==
    LET base == q.targets[q.i]
        won == out.res.raised = ""
        q1 == [q EXCEPT
                !.owned_bases =
                    IF won THEN @ \cup {<<ToInt(base.x), ToInt(base.y)>>} ELSE @,
                !.newly_conquered = IF won THEN Append(@, base) ELSE @,
                !.iteration_conquered = IF won THEN @ + 1 ELSE @,
                !.total_conquered = IF won THEN @ + 1 ELSE @,
                !.iteration_failed = IF won THEN @ ELSE @ + 1,
                !.attacks = Append(@, base.bid)]
    IN  IF q.i < Len(q.targets) THEN [q1 EXCEPT !.i = @ + 1]
        ELSE [q1 EXCEPT
                !.all_iteration_results =
                    Append(@, [iteration |-> q1.iteration,
                               targets_found |-> Len(q1.targets),
                               conquered |-> q1.iteration_conquered,
                               failed |-> q1.iteration_failed,
                               newly_conquered |-> q1.newly_conquered]),
                !.pc = "while"]

\* the cells of a 200 response
CellsOf(x) ==
    IF x.kind = "response" /\ x.status = 200
        THEN {Get(x.body, "data", <<>>)[j] : j \in 1..Len(Get(x.body, "data", <<>>))}
    ELSE {}

ClientUnchanged ==
    UNCHANGED <<alive, auto_sync, base_data, user_data, state_file, user_file,
                file_state, file_user, call, resync, server>>

ConquerStart ==
    /\ alive = "ready" /\ cq.pc \in {"idle", "done"}
    /\ \E seed \in Seeds, name \in Usernames, cap \in 0..MaxIterations, wild \in BOOLEAN :
        cq' = ConquerBegin(seed, name, cap, wild)
    /\ ClientUnchanged

ConquerWhile ==
    /\ cq.pc = "while"
    /\ cq' = ConquerLoop(cq)
    /\ ClientUnchanged

ConquerScan ==
    /\ cq.pc = "scan" /\ cq.to_scan # {}
    /\ \E coord \in cq.to_scan, x \in AreaExchanges :
        cq' = [ScanOne(cq, x) EXCEPT
                !.to_scan = @ \ {coord},
                !.cells_seen = @ \cup CellsOf(x),
                !.some_scan_ok =
                    \/ @
                    \/ /\ x.kind = "response" /\ x.status = 200
                       /\ "error" \in DOMAIN x.body /\ x.body.error = 0]
    /\ ClientUnchanged

ConquerChoose ==
    /\ cq.pc = "scan" /\ cq.to_scan = {}
    /\ cq' = ConquerSelect(cq)
    /\ ClientUnchanged

ConquerAttack ==
    /\ cq.pc = "attack"
    /\ \E xs \in AttackExchanges, now \in ClockReadings :
        cq' = [ConquerAttackOne(cq,
                  destroy_and_takeover(Self, cq.targets[cq.i].bid, PyNone, <<>>,
                                       PyNone, xs, now))
               EXCEPT !.answered =
                        \A k \in 1..5 : xs[k].kind = "response" /\ xs[k].status = 200]
    /\ ClientUnchanged

\* a client as the constructor leaves it
Constructed ==
    _initialize_state(
        NewClient(TRUE, TRUE, Absent,
                  [version |-> "128", baseid |-> "7", type |-> "build", lastupdate |-> "0"]),
        Ok(ResponseFull), "ok").c

InitConquest ==
    /\ alive = "ready"
    /\ auto_sync = Constructed.auto_sync
    /\ base_data = Constructed.base_data
    /\ user_data = Constructed.user_data
    /\ state_file = Constructed.state_file
    /\ user_file = Constructed.user_file
    /\ file_state = Constructed.file_state
    /\ file_user = Constructed.file_user
    /\ call = NoCall
    /\ resync = FALSE
    /\ cq = Idle
    /\ server = NoCounters

NextConquest ==
    \/ ConquerStart
    \/ ConquerWhile
    \/ ConquerScan
    \/ ConquerChoose
    \/ ConquerAttack

SpecConquest == InitConquest /\ [][NextConquest]_vars

\* the steps of a run that has begun.  The method is sequential code: once
\* called it runs each step in turn, and every request it makes returns or
\* raises within the transport's timeout.
ConquerRun ==
    \/ ConquerWhile
    \/ ConquerScan
    \/ ConquerChoose
    \/ ConquerAttack

\* one run from the main base
ConquerStartOnce ==
    /\ alive = "ready" /\ cq.pc = "idle"
    /\ \E name \in Usernames, cap \in 0..MaxIterations, wild \in BOOLEAN :
        cq' = ConquerBegin({<<0, 0>>}, name, cap, wild)
    /\ ClientUnchanged

NextConquestFair ==
    \/ ConquerStartOnce
    \/ ConquerRun

SpecConquestFair == InitConquest /\ [][NextConquestFair]_vars /\ WF_vars(ConquerRun)

(***************************************************************************)
(* Properties of the State Store and the Mutation Engine                   *)
(***************************************************************************)
IsRequest(e, endpoint) == e.ev = "request" /\ e.endpoint = endpoint

SaveSucceeded(c) == c.arg[2].kind = "response" /\ c.arg[2].status = 200

\* C1: merge invariant.  When sync_with_server reconciles a response R into an
\* existing Base Record B, every field present in R has R's value afterwards
\* and every field absent from R keeps the value it had in B; no absent field
\* is reset to a default.
C1_MergeInvariant ==
    [][(Synced(call') /\ base_data # PyNone) =>
        LET R == call'.res.value
            B == BaseData_to_dict(base_data)
            B2 == BaseData_to_dict(base_data')
        IN  \A f \in BaseFields :
                B2[f] = IF f \in DOMAIN R THEN R[f] ELSE B[f]]_vars

\* C2: required-field whitelist with overlay.  The body mutate_server sends to
\* /base/save has exactly the keys baseid, basesaveid, points, basevalue,
\* buildingdata, champion and the keys of the mutation; a key of the mutation
\* carries the mutation's value and every other key the Base Record's value.
C2_RequiredFieldWhitelist ==
    [][(call'.op = "mutate_server" /\ base_data # PyNone) =>
        /\ call'.log # <<>>
        /\ IsRequest(call'.log[1], "/base/save")
        /\ LET body == call'.log[1].data
               M == call'.arg[1]
               B == BaseData_to_dict(base_data)
               whitelist == {"baseid", "basesaveid", "points", "basevalue",
                             "buildingdata", "champion"}
           IN  /\ DOMAIN body = whitelist \cup DOMAIN M
               /\ \A k \in DOMAIN M : body[k] = M[k]
               /\ \A k \in whitelist \ DOMAIN M : body[k] = B[k]]_vars

C2_Witness ==
    /\ call.op = "mutate_server"
    /\ call.log # <<>>
    /\ "points" \in DOMAIN call.arg[1]
    /\ call.log[1].data.points = 9
    /\ base_data # PyNone
    /\ base_data.points # 9

\* C3: resource delta correctness.  set_resources sends a 'resources' mutation
\* with all eight sub-fields: counter i is target i minus the local counter i
\* when the target is given and 0 when it is None, and each capacity is the
\* local capacity.
C3_ResourceDelta ==
    [][(call'.op = "set_resources" /\ base_data # PyNone) =>
        /\ call'.log # <<>>
        /\ IsRequest(call'.log[1], "/base/save")
        /\ "resources" \in DOMAIN call'.log[1].data
        /\ LET sent == call'.log[1].data.resources
               t == call'.arg
               r == base_data.resources
           IN  /\ DOMAIN sent = {"r1", "r2", "r3", "r4", "r1max", "r2max", "r3max", "r4max"}
               /\ sent.r1 = (IF t[1] = <<>> THEN 0 ELSE t[1][1] - r.r1)
               /\ sent.r2 = (IF t[2] = <<>> THEN 0 ELSE t[2][1] - r.r2)
               /\ sent.r3 = (IF t[3] = <<>> THEN 0 ELSE t[3][1] - r.r3)
               /\ sent.r4 = (IF t[4] = <<>> THEN 0 ELSE t[4][1] - r.r4)
               /\ sent.r1max = r.r1max /\ sent.r2max = r.r2max
               /\ sent.r3max = r.r3max /\ sent.r4max = r.r4max]_vars

\* a call that asked for r1 and r4, kept r2 and r3, and sent a delta that is
\* neither the target nor zero
C3_Witness ==
    /\ call.op = "set_resources"
    /\ call.log # <<>>
    /\ call.arg[1] # <<>> /\ call.arg[2] = <<>> /\ call.arg[3] = <<>> /\ call.arg[4] # <<>>
    /\ call.log[1].data.resources.r1 \notin {0, call.arg[1][1]}
    /\ call.log[1].data.resources.r4 < 0
    /\ call.log[1].data.resources.r2 = 0

\* C4 as stated: every mutate_server call whose save succeeded and that
\* returned has sent, after the save, exactly one /base/updatesaved request,
\* then reconciled, then persisted, and returns the save response.
C4_AlwaysRoundTrip ==
    (call.op = "mutate_server" /\ call.log # <<>> /\ SaveSucceeded(call)
        /\ call.res.raised = "") =>
        /\ Len(call.log) = 4
        /\ IsRequest(call.log[1], "/base/save")
        /\ IsRequest(call.log[2], "/base/updatesaved")
        /\ call.log[3] = Reconciled
        /\ call.log[4] = Persisted
        /\ call.res.value = call.arg[2].body

\* C4 amended: a mutate_server call whose save succeeded and that returned
\* returns the save response; with synchronization enabled it has sent, after
\* the save, exactly one /base/updatesaved request, then reconciled, then
\* persisted; with synchronization disabled it has sent the save request only.
C4_RoundTripWhenEnabled ==
    (call.op = "mutate_server" /\ call.log # <<>> /\ SaveSucceeded(call)
        /\ call.res.raised = "") =>
        /\ call.res.value = call.arg[2].body
        /\ IsRequest(call.log[1], "/base/save")
        /\ IF auto_sync
            THEN /\ Len(call.log) = 4
                 /\ IsRequest(call.log[2], "/base/updatesaved")
                 /\ call.log[3] = Reconciled
                 /\ call.log[4] = Persisted
            ELSE Len(call.log) = 1

C4_Witness ==
    /\ call.op = "mutate_server"
    /\ call.res = Returned(SaveResponse)
    /\ auto_sync
    /\ Len(call.log) = 4
    /\ call.arg[3].body # SaveResponse

\* C5: with synchronization disabled, sync_with_server sends no request, leaves
\* the Base Record, the Session Descriptor and the two documents unchanged,
\* raises nothing (also when no Session Descriptor is loaded) and returns None.
C5_DisabledSyncIsNoOp ==
    [][(call'.op = "sync_with_server" /\ ~auto_sync) =>
        /\ call'.log = <<>>
        /\ call'.res = Returned(PyNone)
        /\ UNCHANGED <<base_data, user_data, file_state, file_user, auto_sync>>]_vars

C5_Witness ==
    /\ call.op = "sync_with_server"
    /\ ~auto_sync
    /\ user_data = PyNone
    /\ call.res = Returned(PyNone)

\* C6: with synchronization enabled and no Session Descriptor loaded,
\* sync_with_server raises before any request is sent and leaves the Base
\* Record unchanged.
C6_NoDescriptorFails ==
    [][(call'.op = "sync_with_server" /\ auto_sync /\ user_data \in {PyNone, Unset}) =>
        /\ call'.res.raised # ""
        /\ call'.log = <<>>
        /\ base_data' = base_data]_vars

C6_Witness ==
    /\ call.op = "sync_with_server"
    /\ auto_sync
    /\ user_data = PyNone
    /\ call.res.raised = "ValueError"
    /\ base_data # PyNone

\* C7: after a successful sync_with_server the Session Descriptor is exactly
\* version, baseid, lastupdate and type of the response, a field the response
\* lacks being "0", "0", "0" and "build"; and the request carried the four
\* fields of the Session Descriptor as it was before.
C7_DescriptorReplaced ==
    [][Synced(call') =>
        LET R == call'.res.value
        IN  /\ user_data' =
                [version |-> IF "version" \in DOMAIN R THEN R.version ELSE "'0'",
                 baseid |-> IF "baseid" \in DOMAIN R THEN R.baseid ELSE "'0'",
                 lastupdate |-> IF "lastupdate" \in DOMAIN R THEN R.lastupdate ELSE "'0'",
                 type |-> IF "type" \in DOMAIN R THEN R.type ELSE "build"]
            /\ IsRequest(call'.log[1], "/base/updatesaved")
            /\ call'.log[1].data =
                [version |-> user_data.version, baseid |-> user_data.baseid,
                 lastupdate |-> user_data.lastupdate, type |-> user_data.type]]_vars

\* the response lacked baseid and type, and the descriptor before had them
C7_Witness ==
    /\ Synced(call)
    /\ call.res.value = ResponsePartial
    /\ call.log[1].data.baseid = "7"
    /\ user_data.baseid = "'0'"
    /\ user_data.version = "129"

\* C8: idempotent re-sync.  When two sync_with_server calls in succession both
\* succeed on the same response, the second leaves the Base Record and the
\* Session Descriptor as the first left them.
C8_IdempotentResync ==
    [][(Synced(call) /\ Synced(call') /\ call'.res = call.res) =>
        /\ base_data' = base_data
        /\ user_data' = user_data]_vars

C8_Witness ==
    /\ resync
    /\ call.res.value = ResponseFull
    /\ base_data = BaseData_update_from_dict(base_data, ResponseFull)

(***************************************************************************)
(* Properties of the Conquest Orchestrator                                 *)
(***************************************************************************)
\* a cell that is a live base of another player (lines 996-1020, cell type 3)
PlayerEnemy(e, current_username) ==
    /\ "bid" \in DOMAIN e.cell
    /\ Get(e.cell, "b", 0) = 3
    /\ Lower(Get(e.cell, "n", "")) # Lower(current_username)
    /\ Get(e.cell, "d", 0) # 1

\* a cell that is a live wild-monster base (lines 996-1020, cell type 1)
WildMonster(e) ==
    /\ "bid" \in DOMAIN e.cell
    /\ Get(e.cell, "b", 0) = 1
    /\ Get(e.cell, "d", 0) # 1

PlayersSeen == {e \in cq.cells_seen : PlayerEnemy(e, cq.current_username)}

WildSeen == {e \in cq.cells_seen : WildMonster(e)}

\* the run has chosen this iteration's targets, or has stopped for want of any
Chosen == cq.pc \in {"attack", "while", "done"} /\ cq.iteration >= 1

\* C9: conquest termination.  When the scans of the first iteration return no
\* live base of another player and no live wild-monster base, the run ends in
\* that iteration: it reports iterations = 1 and success, it has conquered
\* nothing, it has made no attack, and it owns exactly the seed coordinates.
C9_ConquestTermination ==
    (Chosen /\ cq.iteration = 1 /\ PlayersSeen = {} /\ WildSeen = {}) =>
        /\ cq.pc = "done"
        /\ cq.result.iterations = 1
        /\ cq.result.success = TRUE
        /\ cq.result.total_conquered = 0
        /\ cq.result.owned_bases = cq.main_base_coords
        /\ cq.result.total_owned_bases = Cardinality(cq.main_base_coords)
        /\ cq.result.iteration_results = <<>>
        /\ cq.attacks = <<>>

\* two seeds were scanned, the scans returned cells, none of them a target,
\* and the cap allowed more iterations
C9_Witness ==
    /\ cq.pc = "done"
    /\ cq.iteration = 1
    /\ cq.max_iterations >= 2
    /\ Cardinality(cq.main_base_coords) = 2
    /\ cq.cells_seen # {}
    /\ PlayersSeen = {} /\ WildSeen = {}
    /\ cq.result.total_conquered = 0

\* C10: conquest fallback.  In an iteration of a run that leaves wild monsters
\* out, when the scans return no live base of another player but at least one
\* live wild-monster base, exactly one of the wild-monster bases is attacked
\* and the iteration reports targets_found = 1; when the scans return a live
\* base of another player, no wild-monster base is attacked.
C10_ConquestFallback ==
    (cq.pc \in {"attack", "while"} /\ cq.iteration >= 1
        /\ ~cq.include_wild_monsters) =>
        /\ (PlayersSeen = {} /\ WildSeen # {}) =>
            /\ Len(cq.targets) = 1
            /\ \E e \in WildSeen : cq.targets[1].bid = e.cell["bid"]
            /\ \A i \in 1..Len(cq.attacks) : cq.attacks[i] = cq.targets[1].bid
            /\ Len(cq.attacks) <= 1
            /\ cq.pc = "while" =>
                /\ Len(cq.attacks) = 1
                /\ cq.all_iteration_results[Len(cq.all_iteration_results)].iteration
                    = cq.iteration
                /\ cq.all_iteration_results[Len(cq.all_iteration_results)].targets_found
                    = 1
        /\ PlayersSeen # {} =>
            /\ \A i \in 1..Len(cq.targets) :
                \E e \in PlayersSeen : cq.targets[i].bid = e.cell["bid"]
            /\ \A i \in 1..Len(cq.attacks), e \in WildSeen :
                cq.attacks[i] # e.cell["bid"]

\* two wild-monster bases were in range and no player's: one was attacked
C10_Witness ==
    /\ cq.pc = "while"
    /\ cq.iteration >= 1
    /\ ~cq.include_wild_monsters
    /\ PlayersSeen = {}
    /\ Cardinality(WildSeen) = 2
    /\ Len(cq.attacks) = 1

(***************************************************************************)
(* get_enemy_bases_from_area on its own                                    *)
(***************************************************************************)
\* a key that a cell may or may not carry
Opt(k, vs) == {EmptyDict} \cup {k :> v : v \in vs}

\* the cells a scan can return: each of bid, b, n and d present or not
CellUniverse ==
    {a @@ b @@ n @@ d :
        a \in Opt("bid", {"X"}), b \in Opt("b", {0, 1, 2, 3}),
        n \in Opt("n", {"Alice", "BOB", "Carl", ""}), d \in Opt("d", {0, 1, 2})}

CallerNames == {"bob", "alice", "ALICE"}

\* the area responses given to get_enemy_bases_from_area: one cell of the
\* universe next to a live wild-monster base
ScanAreas ==
    {[error |-> 0, data |-> <<[x |-> "4", y |-> "5", cell |-> c], CellWild2>>] :
        c \in CellUniverse}

GetEnemyBasesFromArea ==
    /\ alive = "ready" /\ cq = Idle
    /\ \E area \in ScanAreas, name \in CallerNames, wild \in BOOLEAN :
        Record("get_enemy_bases_from_area", <<area, name, wild>>,
               Out(Self, <<>>, Returned(get_enemy_bases_from_area(area, name, wild))))
    /\ UNCHANGED <<alive, cq>>

NextCells ==
    \/ GetEnemyBasesFromArea

SpecCells == InitConquest /\ [][NextCells]_vars

\* C11: cell classification.  get_enemy_bases_from_area returns a cell as a
\* target exactly when the cell carries a base id, its type tag is 3 (or 1
\* when wild monsters are included), it is not a type-3 cell whose name is the
\* caller's username in any letter case, and its destroyed flag is not 1.
C11_CellClassification ==
    call.op = "get_enemy_bases_from_area" =>
        LET area == call.arg[1]
            username == call.arg[2]
            wild == call.arg[3]
            bases == call.res.value
        IN  \A j \in 1..Len(area.data) :
                LET e == area.data[j]
                    tag == IF "b" \in DOMAIN e.cell THEN e.cell["b"] ELSE 0
                    own == /\ tag = 3
                           /\ "n" \in DOMAIN e.cell
                           /\ Lower(e.cell["n"]) = Lower(username)
                    destroyed == "d" \in DOMAIN e.cell /\ e.cell["d"] = 1
                IN  (\E i \in 1..Len(bases) : bases[i].x = e.x /\ bases[i].y = e.y)
                    <=> /\ "bid" \in DOMAIN e.cell
                        /\ (tag = 3 \/ (wild /\ tag = 1))
                        /\ ~own
                        /\ ~destroyed

\* the cell of the claim's example, {bid: X, b: 3, n: Alice, d: 0}, was
\* returned for one caller and left out for the caller ALICE
C11_Witness ==
    /\ call.op = "get_enemy_bases_from_area"
    /\ call.arg[1].data[1].cell = [bid |-> "X", b |-> 3, n |-> "Alice", d |-> 0]
    /\ call.arg[2] = "ALICE"
    /\ ~call.arg[3]
    /\ call.res.value = <<>>

\* the report of the iteration that has just ended
LastReport == cq.all_iteration_results[Len(cq.all_iteration_results)]

\* the attacks of this iteration are over and its report is written
Reported ==
    /\ cq.pc = "while"
    /\ cq.all_iteration_results # <<>>
    /\ LastReport.iteration = cq.iteration

\* C12: per-target failure isolation.  In every iteration each target is
\* attempted once, in the order of the target set, whether or not an earlier
\* attempt raised; the run goes on after a failed attempt; and every iteration
\* report has conquered + failed = targets_found.
C12_FailureIsolation ==
    /\ cq.pc = "attack" =>
        /\ cq.i \in 1..Len(cq.targets)
        /\ cq.attacks = [k \in 1..(cq.i - 1) |-> cq.targets[k].bid]
        /\ cq.iteration_conquered + cq.iteration_failed = cq.i - 1
    /\ Reported =>
        /\ cq.attacks = [k \in 1..Len(cq.targets) |-> cq.targets[k].bid]
        /\ LastReport.targets_found = Len(cq.targets)
    /\ cq.pc # "idle" =>
        \A r \in 1..Len(cq.all_iteration_results) :
            cq.all_iteration_results[r].conquered + cq.all_iteration_results[r].failed
                = cq.all_iteration_results[r].targets_found

\* of two targets the first attempt raised and the second went through
C12_Witness ==
    /\ Reported
    /\ Len(cq.targets) = 2
    /\ LastReport.failed = 1
    /\ LastReport.newly_conquered = <<cq.targets[2]>>
    /\ cq.attacks = <<cq.targets[1].bid, cq.targets[2].bid>>

\* the cap holds at every point of a run
WithinCap ==
    cq.pc # "idle" =>
        /\ cq.iteration <= cq.max_iterations
        /\ Len(cq.all_iteration_results) <= cq.iteration
        /\ cq.pc = "done" => cq.result.iterations <= cq.max_iterations
        /\ cq.max_iterations = 0 =>
            /\ cq.pc \in {"while", "done"}
            /\ cq.cells_seen = {} /\ cq.attacks = <<>>
            /\ cq.pc = "done" =>
                /\ cq.result.total_conquered = 0
                /\ cq.result.iterations = 0

\* C13: iteration cap.  Whatever the server answers, a run of
\* conquer_entire_map ends; it makes at most max_iterations iterations and
\* returns iterations <= max_iterations; with max_iterations = 0 it makes no
\* scan and no attack and returns total_conquered = 0.
C13_IterationCap ==
    /\ []WithinCap
    /\ (cq.pc \in {"while", "scan", "attack"}) ~> (cq.pc = "done")

\* a run that found targets in every iteration and was stopped by the cap
C13_Witness ==
    /\ cq.pc = "done"
    /\ cq.max_iterations >= 2
    /\ cq.result.iterations = cq.max_iterations
    /\ Len(cq.result.iteration_results) = cq.max_iterations
    /\ cq.result.total_conquered >= cq.max_iterations

(***************************************************************************)
(* destroy_base and destroy_and_takeover called on their own               *)
(***************************************************************************)
\* a snapshot that carries the base id alone
TargetSparse == [baseid |-> "40"]

\* a snapshot of a base that holds resources and a name
TargetRich ==
    [baseid |-> "40", basesaveid |-> 33, version |-> "129", points |-> 8,
     basevalue |-> 2, name |-> "Alice", basename |-> "keep", destroyed |-> 0,
     damage |-> 10, protect |-> 1, timeplayed |-> 44, lastupdate |-> "77",
     buildingdata |-> BuildingsA,
     monsters |-> [housed |-> [C1 |-> 4]],
     resources |-> [r1 |-> 7, r2 |-> 7, r3 |-> 7, r4 |-> 7,
                    r1max |-> 9, r2max |-> 9, r3max |-> 9, r4max |-> 9]]

TargetSnapshots == {TargetSnapshot, TargetSparse, TargetRich}

\* the exchanges of one destroy_and_takeover: the five succeed on some
\* snapshots, or the k-th fails and the ones before it succeed
WorkflowExchanges ==
    {<<Ok(t), Ok(SaveResponse), Ok([error |-> 0]), Ok(u), Ok(SaveResponse)>> :
        t \in TargetSnapshots, u \in {TargetSnapshot, TargetSparse}}
    \cup AttackExchanges

TargetIds == {"p1", "w1"}

AttackData == {PyNone, [monsters |-> <<[id |-> "C12"]>>, champions |-> EmptyList]}

\* the values a caller passes as attacker_champion: <<>> for None, <<l>> for
\* the list l
AttackerChampions == {<<>>, <<EmptyList>>, << <<[t |-> 2]>> >>}

TakeoverResources == {PyNone, [r1 |-> 100, r2 |-> 100, r3 |-> 100, r4 |-> 100]}

DestroyBase ==
    /\ alive = "ready" /\ cq = Idle
    /\ \E baseid \in TargetIds, ad \in AttackData, ac \in AttackerChampions,
          xs \in WorkflowExchanges, now \in ClockReadings :
        Record("destroy_base", <<baseid, ad, ac, xs>>,
               destroy_base(Self, baseid, ad, ac, xs, now))
    /\ UNCHANGED <<alive, cq>>

DestroyAndTakeover ==
    /\ alive = "ready" /\ cq = Idle
    /\ \E baseid \in TargetIds, ad \in AttackData, ac \in AttackerChampions,
          tr \in TakeoverResources, xs \in WorkflowExchanges, now \in ClockReadings :
        Record("destroy_and_takeover", <<baseid, ad, ac, xs, tr>>,
               destroy_and_takeover(Self, baseid, ad, ac, tr, xs, now))
    /\ UNCHANGED <<alive, cq>>

\* load_base(baseid, load_type)
LoadBase ==
    /\ alive = "ready" /\ cq = Idle
    /\ \E baseid \in TargetIds, load_type \in {"build", "attack"},
          x \in {Ok(t) : t \in TargetSnapshots} \cup Failures :
        Record("load_base", <<baseid, load_type, x>>, load_base(Self, baseid, load_type, x))
    /\ UNCHANGED <<alive, cq>>

NextAttack ==
    \/ DestroyBase
    \/ DestroyAndTakeover
    \/ LoadBase

SpecAttack == InitResources /\ [][NextAttack]_vars

\* the exchange x came back with status 200
Succeeded(x) == x.kind = "response" /\ x.status = 200

WorkflowEndpoints ==
    <<"/base/load", "/base/save", "/worldmapv2/takeovercell", "/base/load", "/base/save">>

\* C14: order of the workflow.  destroy_and_takeover sends /base/load (type
\* attack), /base/save (the destroy record), /worldmapv2/takeovercell,
\* /base/load (type build), /base/save (the outpost record) in that order; a
\* step that fails raises to the caller and no later request is sent.
C14_WorkflowOrder ==
    call.op = "destroy_and_takeover" =>
        LET n == Len(call.log)
            xs == call.arg[4]
        IN  /\ n \in 1..5
            /\ \A k \in 1..n : IsRequest(call.log[k], WorkflowEndpoints[k])
            /\ call.log[1].data.type = "attack"
            /\ n >= 2 => call.log[2].data.destroyed = 1
            /\ n >= 4 => call.log[4].data.type = "build"
            /\ n = 5 => "destroyed" \notin DOMAIN call.log[5].data
            /\ \A k \in 1..(n - 1) : Succeeded(xs[k])
            /\ Succeeded(xs[n]) => n = 5
            /\ call.res.raised = "" <=> \A k \in 1..5 : Succeeded(xs[k])
            /\ call.res.raised = "" => call.res.value = xs[5].body

\* the destroy save failed: two requests were sent, no takeover, and the call
\* raised
C14_Witness ==
    /\ call.op = "destroy_and_takeover"
    /\ Len(call.log) = 2
    /\ Succeeded(call.arg[4][1])
    /\ ~Succeeded(call.arg[4][2])
    /\ call.res.raised # ""

(***************************************************************************)
(* _make_request called on its own                                         *)
(***************************************************************************)
StatusCodes ==
    {200, 201, 204, 301, 302, 304, 400, 401, 403, 404, 429, 499, 500, 502, 503,
     599, 600}

\* what one request can come to: a response with a status and a text that is
\* JSON or not, a socket timeout, a connection failure or another failure
\* of the HTTP library
TransportExchanges ==
    {[kind |-> "response", status |-> st, body |-> b] :
        st \in StatusCodes, b \in {[error |-> 0], SaveResponse}}
    \cup {[kind |-> "response", status |-> st, text |-> t] :
            st \in StatusCodes, t \in {"<html>", ""}}
    \cup {[kind |-> "timeout"], [kind |-> "connection"], [kind |-> "request_exception"]}

\* the field maps given as data
FieldMaps ==
    {<<>>,
     << <<"resources", VDict(<< <<"r1", VInt(5)>> >>)>>, <<"points", VInt(10)>>,
        <<"flag", VNone>> >>,
     << <<"buildingdata",
          VDict(<< <<"1", VDict(<< <<"t", VInt(14)>>, <<"l", VNone>> >>)>> >>)>>,
        <<"champion", VList(<< VDict(<< <<"t", VInt(1)>> >>) >>)>>,
        <<"basename", VStr("my fort")>> >>,
     << <<"purchase", VList(<< VStr("MUSHROOM2"), VInt(1) >>)>>,
        <<"over", VBool(TRUE)>>, <<"quests", VDict(<<>>)>>,
        <<"achieved", VList(<<>>)>>, <<"delta", VInt(0 - 3)>>,
        <<"lootreport", VDict(<< <<"isInferno", VBool(FALSE)>>,
                                 <<"name", VStr("")>> >>)>> >>}

\* what a second attempt would come to, were one made
SecondExchanges == {Ok(SaveResponse), [kind |-> "timeout"]}

\* a variant that issues the request again when the first exchange failed
session_request_retries_once(xs) ==
    IF xs[1].kind = "response" /\ xs[1].status = 200 THEN <<xs[1]>>
    ELSE <<xs[1], xs[2]>>

\* the exchanges one _make_request performs when the k-th attempt would come
\* to xs[k]: the one call of self.session.request (lines 263-273), on a
\* session whose adapters are the defaults, which do not retry
session_request(xs) == <<xs[1]>>

\* _make_request(method, endpoint, data); the log holds the encoded fields
\* and one event for each exchange performed
MakeRequest ==
    /\ alive = "ready" /\ cq = Idle
    /\ \E x \in TransportExchanges, data \in FieldMaps, x2 \in SecondExchanges :
        LET performed == session_request(<<x, x2>>)
        IN  Record("_make_request", <<x, data, x2>>,
                   Out(Self,
                       <<[ev |-> "form", fields |-> form_data(data)]>>
                       \o [k \in 1..Len(performed) |->
                              [ev |-> "exchange", outcome |-> performed[k]]],
                       _make_request(performed[Len(performed)])))
    /\ UNCHANGED <<alive, cq>>

NextTransport ==
    \/ MakeRequest

SpecTransport == InitResources /\ [][NextTransport]_vars

\* C15: transport classification.  _make_request returns the parsed body
\* exactly when the status is 200, raises AuthenticationError exactly on 401,
\* ValidationError exactly on 400, ServerError exactly on 500..599 and the
\* generic BYMRAPIError on every other status; it raises NetworkError on a
\* socket timeout and on a connection failure; every error raised for a
\* status carries the status and the body, parsed as far as it can be.
C15_TransportClassification ==
    call.op = "_make_request" =>
        LET x == call.arg[1]
            r == call.res
            parsed == IF "body" \in DOMAIN x THEN x.body
                      ELSE [raw_response |-> x.text]
        IN  /\ x.kind = "response" =>
                /\ r.raised = "" <=> x.status = 200
                /\ r.raised = "" => r.value = parsed
                /\ r.raised = "AuthenticationError" <=> x.status = 401
                /\ r.raised = "ValidationError" <=> x.status = 400
                /\ r.raised = "ServerError" <=> x.status \in 500..599
                /\ r.raised = "BYMRAPIError"
                    <=> x.status \notin ({200, 400, 401} \cup (500..599))
                /\ r.raised # "" =>
                    /\ r.status_code = <<x.status>>
                    /\ r.response = parsed
            /\ x.kind \in {"timeout", "connection"} => r.raised = "NetworkError"

\* a redirect status with a body that is not JSON raised the generic error,
\* which carries the status and the raw text
C15_Witness ==
    /\ call.op = "_make_request"
    /\ call.arg[1].kind = "response"
    /\ call.arg[1].status = 302
    /\ call.res.raised = "BYMRAPIError"
    /\ call.res.status_code = <<302>>
    /\ call.res.response = [raw_response |-> "<html>"]

\* C16: field encoding.  Each top-level field is encoded on its own: a mapping
\* or a sequence as its JSON text with separators "," and ":" and no
\* whitespace, None as the string null, any other scalar as its string form.
C16_FieldEncoding ==
    call.op = "_make_request" =>
        LET data == call.arg[2]
            fields == call.log[1].fields
            wire(key) ==
                CASE key = "resources" -> "{\"r1\":5}"
                  [] key = "points" -> "10"
                  [] key = "flag" -> "null"
                  [] key = "buildingdata" -> "{\"1\":{\"t\":14,\"l\":null}}"
                  [] key = "champion" -> "[{\"t\":1}]"
                  [] key = "basename" -> "my fort"
                  [] key = "purchase" -> "[\"MUSHROOM2\",1]"
                  [] key = "over" -> "True"
                  [] key = "quests" -> "{}"
                  [] key = "achieved" -> "[]"
                  [] key = "delta" -> "-3"
                  [] key = "lootreport" -> "{\"isInferno\":false,\"name\":\"\"}"
        IN  /\ Len(fields) = Len(data)
            /\ \A i \in 1..Len(data) :
                /\ fields[i][1] = data[i][1]
                /\ fields[i][2] = wire(data[i][1])
                /\ data[i][2].t = "none" => fields[i][2] = "null"
                /\ data[i][2].t = "str" => fields[i][2] = data[i][2].v

\* the field map of the example: a mapping, an integer and None
C16_Witness ==
    /\ call.op = "_make_request"
    /\ call.arg[2] = << <<"resources", VDict(<< <<"r1", VInt(5)>> >>)>>,
                        <<"points", VInt(10)>>, <<"flag", VNone>> >>
    /\ call.log[1].fields =
        << <<"resources", "{\"r1\":5}">>, <<"points", "10">>, <<"flag", "null">> >>

(***************************************************************************)
(* Properties of construction                                              *)
(*                                                                         *)
(* The record of a construction holds, in arg, whether state_file and      *)
(* user_file were given, the exchange the server would answer with and the *)
(* document found at user_file.                                            *)
(***************************************************************************)
\* C17: constructing a client when no Session Descriptor is persisted (no
\* state file given, or the session file absent) completes without raising,
\* sends no request, and leaves the client with no Base Record and no
\* Session Descriptor.
C17_ConstructWithoutDescriptor ==
    (/\ call.op = "__init__"
     /\ \/ ~call.arg[1]
        \/ call.arg[1] /\ call.arg[2] /\ call.arg[4] = Absent)
    => /\ call.res.raised = ""
       /\ alive = "ready"
       /\ call.log = <<>>
       /\ base_data = PyNone
       /\ user_data \in {Unset, PyNone}

\* C18: a construction that finds a well-formed Session Descriptor sends
\* exactly one request, to /base/updatesaved and carrying that descriptor; if
\* it returns, the Base Record is the one built from the response; if the
\* exchange fails, the construction raises.
C18_ConstructSyncsOnce ==
    (/\ call.op = "__init__"
     /\ call.arg[1] /\ call.arg[2]
     /\ DOMAIN call.arg[4] = {"version", "baseid", "type", "lastupdate"})
    => LET x == call.arg[3]
           requests == SelectSeq(call.log, LAMBDA e : e.ev = "request")
           answered == x.kind = "response" /\ x.status = 200
       IN  /\ requests = <<Request("/base/updatesaved", call.arg[4])>>
           /\ call.log[1] = requests[1]
           /\ ~answered => call.res.raised \in {"ServerError", "NetworkError"}
           /\ call.res.raised # "" => alive = "failed"
           /\ call.res.raised = "" =>
               /\ answered
               /\ alive = "ready"
               /\ call.log = <<requests[1], Reconciled, Persisted>>
               /\ base_data = BaseData_from_dict(x.body)

\* a construction that found a descriptor, synchronized and returned
C18_Witness ==
    /\ call.op = "__init__"
    /\ call.arg[1] /\ call.arg[2]
    /\ DOMAIN call.arg[4] = {"version", "baseid", "type", "lastupdate"}
    /\ call.res.raised = ""
    /\ base_data = BaseData_from_dict(ResponseFull)
    /\ Len(call.log) = 3

(***************************************************************************)
(* destroy_all_enemy_bases called on its own                               *)
(***************************************************************************)
\* area responses that report a failure, or report nothing, and yet list cells
AreaRefusedWithCells == [error |-> 5, data |-> <<CellAlice, CellWild1>>]

AreaNoErrorField == [data |-> <<CellAlice>>]

SweepAreaExchanges ==
    AreaExchanges
    \cup {Ok(AreaRefusedWithCells), Ok(AreaNoErrorField), Ok(ResponseRaw)}
    \cup Failures

\* the exchanges of the attacks of one sweep; an area lists two targets at most
SweepAttackExchanges ==
    LET one == {AttackGoesWell}
               \cup {[i \in 1..5 |-> IF i < k THEN AttackGoesWell[i]
                                     ELSE [kind |-> "timeout"]] : k \in {1, 2, 3, 5}}
    IN  {<<a, b>> : a \in one, b \in one}

DestroyAllEnemyBases ==
    /\ alive = "ready" /\ cq = Idle
    /\ \E current_username \in Usernames, include_wild_monsters \in BOOLEAN,
          tr \in TakeoverResources, ex \in SweepAreaExchanges,
          xss \in SweepAttackExchanges, now \in ClockReadings :
        Record("destroy_all_enemy_bases",
               <<current_username, include_wild_monsters, ex, xss>>,
               destroy_all_enemy_bases(Self, 0, 0, current_username, PyNone, <<>>, tr,
                                       include_wild_monsters, ex, xss, now))
    /\ UNCHANGED <<alive, cq>>

NextSweep ==
    \/ DestroyAllEnemyBases

SpecSweep == InitResources /\ [][NextSweep]_vars

\* C19: in destroy_all_enemy_bases, an area response whose error field is
\* not 0, or is missing, ends the call: it returns a result with success
\* False, raises nothing, and the area scan is the only request sent.
C19_AreaErrorShortCircuits ==
    (/\ call.op = "destroy_all_enemy_bases"
     /\ Succeeded(call.arg[3])
     /\ \/ "body" \notin DOMAIN call.arg[3]
        \/ "error" \notin DOMAIN call.arg[3].body
        \/ call.arg[3].body.error # 0)
    => /\ call.res.raised = ""
       /\ call.res.value.success = FALSE
       /\ Len(call.log) = 1
       /\ IsRequest(call.log[1], "/worldmapv2/getarea")
       /\ \A k \in 1..Len(call.log) :
            call.log[k].endpoint
                \notin {"/base/load", "/base/save", "/worldmapv2/takeovercell"}

\* an area response that reports error 5 and lists enemy cells: nothing was
\* attacked
C19_Witness ==
    /\ call.op = "destroy_all_enemy_bases"
    /\ call.arg[3] = Ok(AreaRefusedWithCells)
    /\ call.res.raised = ""
    /\ call.res.value.success = FALSE
    /\ Len(call.log) = 1

(***************************************************************************)
(* Properties of the destroy save                                          *)
(***************************************************************************)
\* the fields of the destroy-save record that are read from the snapshot
PassThroughFields ==
    {"mushrooms", "baseseed", "monsters", "buildingdata", "flinger", "aiattacks",
     "attackid", "catapult", "version", "tutorialstage", "basevalue",
     "buildinghealthdata", "buildingresources", "researchdata", "basesaveid",
     "basename", "stats", "inventory", "frontpage", "lockerdata", "quests",
     "monsterbaiter", "empirevalue", "points", "academy"}

\* C20: the destroy-save record.  For a snapshot T loaded for target b, the
\* record sent to /base/save has baseid b, the eight resources at 0,
\* destroyed 1, over 1, damage 100, protect 0, the attackloot and lootreport
\* counters at 0, timeplayed 3, and every pass-through field T carries at T's
\* value, whatever the client's own Base Record holds.
C20_DestroySaveRecord ==
    (/\ call.op \in {"destroy_base", "destroy_and_takeover"}
     /\ Succeeded(call.arg[4][1]))
    => LET b == call.arg[1]
           T == call.arg[4][1].body
           record == call.log[2].data
       IN  /\ IsRequest(call.log[1], "/base/load")
           /\ call.log[1].data.type = "attack"
           /\ call.log[1].data.baseid = b
           /\ IsRequest(call.log[2], "/base/save")
           /\ record.baseid = b
           /\ DOMAIN record.resources =
                {"r1", "r2", "r3", "r4", "r1max", "r2max", "r3max", "r4max"}
           /\ \A r \in DOMAIN record.resources : record.resources[r] = 0
           /\ record.destroyed = 1
           /\ record.over = 1
           /\ record.damage = 100
           /\ record.protect = 0
           /\ \A r \in {"r1", "r2", "r3", "r4"} :
                record.attackloot[r] = 0 /\ record.lootreport[r] = 0
           /\ record.timeplayed = 3
           /\ \A f \in PassThroughFields \cap DOMAIN T : record[f] = T[f]

\* a snapshot that holds resources, points and a base id of its own, loaded
\* by a client whose Base Record holds other points
C20_Witness ==
    /\ call.op = "destroy_base"
    /\ call.arg[4][1] = Ok(TargetRich)
    /\ call.arg[1] = "p1"
    /\ Len(call.log) = 2
    /\ call.log[2].data.points = 8
    /\ call.log[2].data.baseid = "p1"
    /\ base_data.points # 8

(***************************************************************************)
(* Properties of the explicit base loads                                   *)
(***************************************************************************)
\* C21: after every explicit base load (load_base, and the loads inside
\* destroy_base and destroy_and_takeover) that returned, a synchronization
\* round-trip follows: a request to /base/updatesaved is sent after the load.
C21_SyncAfterLoad ==
    (/\ call.op \in {"load_base", "destroy_base", "destroy_and_takeover"}
     /\ call.res.raised = "")
    => \E i \in 1..Len(call.log) :
        /\ IsRequest(call.log[i], "/base/load")
        /\ \E j \in (i + 1)..Len(call.log) :
            IsRequest(call.log[j], "/base/updatesaved")

(***************************************************************************)
(* Further properties of conquer_entire_map                                *)
(***************************************************************************)
\* sq holds no value twice
NoRepeat(sq) == \A j, k \in 1..Len(sq) : sq[j] = sq[k] => j = k

\* C22: target deduplication.  Within one iteration the targets found around
\* the owned coordinates are merged by base id, so no base id is attacked
\* more than once in the iteration, even when several scans returned it.
C22_TargetDedup ==
    cq.pc \in {"scan", "attack", "while", "done"} =>
        /\ NoRepeat(cq.attacks)
        /\ NoRepeat([k \in 1..Len(cq.targets_dict) |-> cq.targets_dict[k].bid])
        /\ NoRepeat([k \in 1..Len(cq.targets) |-> cq.targets[k].bid])

\* the two scans of the first iteration both returned the base p1 (one with a
\* wild monster, one with a ruin), and the iteration attacked p1 once
C22_Witness ==
    /\ cq.pc = "while"
    /\ cq.iteration = 1
    /\ Cardinality(cq.main_base_coords) = 2
    /\ ~cq.include_wild_monsters
    /\ cq.cells_seen = {CellWild1, CellAlice, CellRuin}
    /\ cq.attacks = <<"p1">>

RECURSIVE SumConquered(_)
SumConquered(reports) ==
    IF reports = <<>> THEN 0 ELSE Head(reports).conquered + SumConquered(Tail(reports))

\* C23: evolution of the owned set.  It starts as the seed coordinates, only
\* grows, gains a target's coordinates exactly when the attack on that target
\* completed without exception and gains nothing when it failed; at return
\* the seed is within owned_bases and total_owned_bases is at most the size
\* of the seed plus total_conquered, the sum of the conquered counts of the
\* iterations.
C23_OwnedSetEvolution ==
    [][/\ (cq.pc \in {"idle", "done"} /\ cq'.pc = "while") =>
            cq'.owned_bases = cq'.main_base_coords
       /\ cq.pc \in {"while", "scan", "attack"} =>
            /\ cq.owned_bases \subseteq cq'.owned_bases
            /\ cq'.main_base_coords = cq.main_base_coords
       /\ cq.pc \in {"while", "scan"} => cq'.owned_bases = cq.owned_bases
       /\ cq.pc = "attack" =>
            LET base == cq.targets[cq.i]
                coords == <<ToInt(base.x), ToInt(base.y)>>
            IN  IF cq'.answered
                    THEN /\ cq'.owned_bases = cq.owned_bases \cup {coords}
                         /\ cq'.total_conquered = cq.total_conquered + 1
                ELSE /\ cq'.owned_bases = cq.owned_bases
                     /\ cq'.total_conquered = cq.total_conquered
       /\ cq'.pc = "done" =>
            /\ cq'.main_base_coords \subseteq cq'.result.owned_bases
            /\ cq'.result.owned_bases = cq.owned_bases
            /\ cq'.result.total_owned_bases = Cardinality(cq'.result.owned_bases)
            /\ cq'.result.total_conquered = SumConquered(cq'.result.iteration_results)
            /\ cq'.result.total_owned_bases
                <= Cardinality(cq'.main_base_coords) + cq'.result.total_conquered
      ]_vars

\* a run that returned after one attack failed and one succeeded: the owned
\* set is the seed and the coordinates of the target that fell
C23_Witness ==
    /\ cq.pc = "done"
    /\ cq.main_base_coords = {<<0, 0>>}
    /\ cq.result.total_conquered = 1
    /\ cq.result.owned_bases = {<<0, 0>>, <<1, 0>>}
    /\ \E k \in 1..Len(cq.result.iteration_results) :
        cq.result.iteration_results[k].failed >= 1

(***************************************************************************)
(* Further properties of the Transport Adapter                             *)
(***************************************************************************)
\* C24: no retries at the transport layer.  Each _make_request performs
\* exactly one exchange, whatever its outcome, and its result is the
\* classification of that exchange; a failed exchange is not issued again.
C24_NoRetry ==
    call.op = "_make_request" =>
        LET performed == SelectSeq(call.log, LAMBDA e : e.ev = "exchange")
        IN  /\ performed = <<[ev |-> "exchange", outcome |-> call.arg[1]]>>
            /\ ~Succeeded(call.arg[1]) => call.res.raised # ""

\* the exchange timed out, a second attempt would have been answered, and the
\* call raised after the one exchange
C24_Witness ==
    /\ call.op = "_make_request"
    /\ call.arg[1] = [kind |-> "timeout"]
    /\ call.arg[3] = Ok(SaveResponse)
    /\ Len(call.log) = 2
    /\ call.res.raised = "NetworkError"

(***************************************************************************)
(* Failures in the Mutation Engine and the State Store                     *)
(***************************************************************************)
\* C25: a mutate_server call whose /base/save request raises lets the error
\* reach the caller, sends no /base/updatesaved request, persists nothing, and
\* leaves the Base Record and the Session Descriptor exactly as they were.
C25_FailedSaveNotApplied ==
    [][(/\ call'.op = "mutate_server"
        /\ call'.log # <<>>
        /\ ~SaveSucceeded(call'))
       => /\ call'.res.raised \in {"ServerError", "NetworkError"}
          /\ Len(call'.log) = 1
          /\ IsRequest(call'.log[1], "/base/save")
          /\ base_data' = base_data
          /\ user_data' = user_data
          /\ file_state' = file_state
          /\ file_user' = file_user
      ]_vars

\* a save that the server answered with status 500, on a client with
\* synchronization enabled
C25_Witness ==
    /\ call.op = "mutate_server"
    /\ call.arg[2].kind = "response" /\ call.arg[2].status = 500
    /\ call.res.raised = "ServerError"
    /\ auto_sync
    /\ Len(call.log) = 1
    /\ base_data # PyNone

\* C26: sync_with_server is not atomic with respect to persistence.  When
\* the /base/updatesaved request succeeds and the persist step fails, the
\* error reaches the caller while the Base Record and the Session Descriptor
\* in memory are already the ones reconciled from the response; the
\* descriptor document is not written, so memory and the files can disagree.
C26_SyncNotAtomic ==
    [][(/\ call'.op = "sync_with_server"
        /\ Succeeded(call'.arg[1])
        /\ call'.log # <<>>
        /\ call'.res.raised \in {"OSError", "ValueError"})
       => LET response == call'.arg[1].body
          IN  /\ IsRequest(call'.log[1], "/base/updatesaved")
              /\ Persisted \notin {call'.log[k] : k \in 1..Len(call'.log)}
              /\ base_data' = IF base_data = PyNone THEN BaseData_from_dict(response)
                              ELSE BaseData_update_from_dict(base_data, response)
              /\ user_data' = UserData(Get(response, "version", "'0'"),
                                       Get(response, "baseid", "'0'"),
                                       Get(response, "lastupdate", "'0'"),
                                       Get(response, "type", "build"))
              /\ file_user' = file_user
              /\ file_state' \in {file_state, BaseData_to_dict(base_data')}
      ]_vars

\* the documents could not be written after the server answered with a newer
\* version: the descriptor in memory differs from the one on disk
C26_Witness ==
    /\ call.op = "sync_with_server"
    /\ call.arg[1] = Ok(ResponsePartial)
    /\ call.res.raised = "OSError"
    /\ user_data.version = "129"
    /\ base_data.points = 6
    /\ file_user # UserData_to_dict(user_data)
    /\ file_state # BaseData_to_dict(base_data)

(***************************************************************************)
(* set_resources against a server that keeps the counters                  *)
(*                                                                         *)
(* The server adds the deltas of an accepted /base/save to the counters it *)
(* stores and answers /base/updatesaved with its full record.  The client  *)
(* is the only writer.                                                     *)
(***************************************************************************)
Counters(r) == [r1 |-> r.r1, r2 |-> r.r2, r3 |-> r.r3, r4 |-> r.r4]

\* the server's store after it accepted a save that sent these resources
ServerApply(store, sent) ==
    [r1 |-> store.r1 + sent.r1, r2 |-> store.r2 + sent.r2,
     r3 |-> store.r3 + sent.r3, r4 |-> store.r4 + sent.r4]

\* what the server answers to /base/updatesaved
ServerAnswer(store) ==
    [ResponseFull EXCEPT !.resources =
        [@ EXCEPT !.r1 = store.r1, !.r2 = store.r2, !.r3 = store.r3, !.r4 = store.r4]]

ConvergeTargets == {<<>>, <<0>>, <<MaxTarget>>}

\* set_resources(r1, r2, r3, r4); the server accepts the save, whose body is
\* the one mutate_server builds, or rejects it with status 500, and answers
\* the synchronization.  The call record holds, after the exchanges, the
\* local counters before the call.
SetResourcesOnServer ==
    /\ alive = "ready" /\ cq = Idle
    /\ \E r1 \in ConvergeTargets, r2 \in ConvergeTargets, r3 \in Targets, r4 \in Targets,
          accepted \in BOOLEAN :
        \E sent \in {RequestData(base_data,
                                 ResourceMutation(base_data, r1, r2, r3, r4)).resources},
           xs \in {IF accepted THEN Ok(SaveResponse)
                   ELSE [kind |-> "response", status |-> 500,
                         body |-> [message |-> "down"]]} :
            \E store \in {IF accepted THEN ServerApply(server, sent) ELSE server} :
                \E x \in {Ok(ServerAnswer(store))} :
                    \E out \in {set_resources(Self, r1, r2, r3, r4, xs, x, "ok")} :
                        /\ Install(out.c)
                        /\ call' = [op |-> "set_resources",
                                    arg |-> <<r1, r2, r3, r4, xs, x,
                                              Counters(base_data.resources)>>,
                                    log |-> out.log, res |-> out.res]
                        /\ resync' = FALSE
                        /\ server' = store
    /\ UNCHANGED <<alive, cq>>

\* a constructed client whose counters are the server's
InitConverge ==
    /\ alive = "ready"
    /\ auto_sync = TRUE
    /\ base_data \in {BaseData_from_dict(r) : r \in {ResponseFull, ResponsePartial}}
    /\ user_data = UserData("128", "7", "0", "build")
    /\ state_file = TRUE
    /\ user_file = TRUE
    /\ file_state = Absent
    /\ file_user = UserData_to_dict(user_data)
    /\ call = NoCall
    /\ resync = FALSE
    /\ cq = Idle
    /\ server = Counters(base_data.resources)

NextConverge ==
    \/ SetResourcesOnServer

SpecConverge == InitConverge /\ [][NextConverge]_vars

\* C27: end-to-end convergence of the resources.  With synchronization
\* enabled, a single writer and a server that adds the deltas it is sent,
\* after set_resources(t1..t4) returns each counter with a target equals the
\* target, each counter without one equals its previous value, the local
\* counters equal the server's, and the same call made again would send
\* deltas that are all zero.
C27_ResourceConvergence ==
    (/\ call.op = "set_resources"
     /\ call.res.raised = "")
    => LET local == base_data.resources
           before == call.arg[7]
           want(t, was) == IF t # <<>> THEN t[1] ELSE was
           again == set_resources(Self, call.arg[1], call.arg[2], call.arg[3],
                                  call.arg[4], Ok(SaveResponse), Ok(ResponseRaw),
                                  "ok").log[1].data.resources
       IN  /\ auto_sync
           /\ local.r1 = want(call.arg[1], before.r1)
           /\ local.r2 = want(call.arg[2], before.r2)
           /\ local.r3 = want(call.arg[3], before.r3)
           /\ local.r4 = want(call.arg[4], before.r4)
           /\ Counters(local) = server
           /\ Counters(again) = [r1 |-> 0, r2 |-> 0, r3 |-> 0, r4 |-> 0]

\* counter 1 was brought down to 0, counter 2 up to the target, counters 3
\* and 4 were kept at values that are not zero
C27_Witness ==
    /\ call.op = "set_resources"
    /\ call.res.raised = ""
    /\ call.arg[1] = <<0>> /\ call.arg[2] = <<MaxTarget>>
    /\ call.arg[3] = <<>> /\ call.arg[4] = <<>>
    /\ call.arg[7].r1 > 0
    /\ base_data.resources.r3 = 3 /\ base_data.resources.r4 = 9
    /\ server = [r1 |-> 0, r2 |-> MaxTarget, r3 |-> 3, r4 |-> 9]

\* C28: scan failures are swallowed.  When every area scan of an iteration
\* raised a transport error or returned an error field that is not 0, the
\* target set is empty, the loop stops, and the call returns success True
\* with a result that holds no trace of the failed scans: no report for the
\* iteration and no field beyond the usual six.
C28_ScanFailuresSwallowed ==
    [][(/\ cq.pc = "scan"
        /\ cq.to_scan = {}
        /\ ~cq.some_scan_ok)
       => /\ cq.targets_dict = <<>>
          /\ cq.wild_monsters_dict = <<>>
          /\ cq'.pc = "done"
          /\ cq'.result.success = TRUE
          /\ cq'.result.iterations = cq.iteration
          /\ cq'.result.iteration_results = cq.all_iteration_results
          /\ \A k \in 1..Len(cq.all_iteration_results) :
                cq.all_iteration_results[k].iteration < cq.iteration
          /\ DOMAIN cq'.result =
                {"success", "total_conquered", "total_owned_bases", "iterations",
                 "owned_bases", "iteration_results"}
      ]_vars

\* a run from two coordinates whose two scans both failed in the first
\* iteration: it returned success with nothing conquered and no report
C28_Witness ==
    /\ cq.pc = "done"
    /\ Cardinality(cq.main_base_coords) = 2
    /\ cq.max_iterations >= 1
    /\ cq.iteration = 1
    /\ ~cq.some_scan_ok
    /\ cq.cells_seen = {}
    /\ cq.result.success = TRUE
    /\ cq.result.total_conquered = 0
    /\ cq.result.iteration_results = <<>>

\* C29: no memory of failed targets.  A target whose attack failed in one
\* iteration and which the scans of the next iteration return again is
\* attacked again, once; and a run in which every iteration found targets and
\* conquered none of them ran exactly max_iterations iterations and returns
\* total_conquered 0 with success True.
C29_FailedTargetsRetried ==
    [][/\ (/\ cq.pc = "scan" /\ cq.to_scan = {} /\ cq.iteration >= 2) =>
            \A k \in 1..Len(cq.targets) :
                (/\ ~InSeq(cq.targets[k], cq.newly_conquered)
                 /\ \E j \in 1..Len(cq.targets_dict) :
                        cq.targets_dict[j].bid = cq.targets[k].bid)
                => /\ cq'.pc = "attack"
                   /\ Cardinality({j \in 1..Len(cq'.targets) :
                                    cq'.targets[j].bid = cq.targets[k].bid}) = 1
       /\ (cq.pc = "attack" /\ cq'.pc = "while") =>
            cq'.attacks = [k \in 1..Len(cq.targets) |-> cq.targets[k].bid]
       /\ (/\ cq'.pc = "done"
           /\ cq'.max_iterations >= 1
           /\ Len(cq'.result.iteration_results) = cq'.result.iterations
           /\ \A k \in 1..Len(cq'.result.iteration_results) :
                /\ cq'.result.iteration_results[k].targets_found >= 1
                /\ cq'.result.iteration_results[k].conquered = 0)
          => /\ cq'.result.iterations = cq'.max_iterations
             /\ cq'.result.total_conquered = 0
             /\ cq'.result.success = TRUE
             /\ \A k \in 1..Len(cq'.result.iteration_results) :
                    cq'.result.iteration_results[k].failed
                        = cq'.result.iteration_results[k].targets_found
      ]_vars

\* the scans returned the base p1 in both iterations and the attack on it
\* failed both times: the run used up its two iterations and conquered
\* nothing
C29_Witness ==
    /\ cq.pc = "done"
    /\ cq.max_iterations = 2
    /\ ~cq.include_wild_monsters
    /\ cq.result.iterations = 2
    /\ cq.result.total_conquered = 0
    /\ cq.result.success = TRUE
    /\ Len(cq.result.iteration_results) = 2
    /\ cq.result.iteration_results[1].failed = 1
    /\ cq.result.iteration_results[2].failed = 1
    /\ CellAlice \in cq.cells_seen
    /\ cq.attacks = <<"p1">>
    /\ cq.result.owned_bases = cq.main_base_coords

(***************************************************************************)
(* Building descriptors through a synchronization and a mutation           *)
(***************************************************************************)
\* the descriptors the server sends: id, t, X, Y and each of l, st, fort and
\* upl present or not; l and fort can also be present and null
BuildingDescriptors ==
    {[id |-> <<1>>, t |-> <<14>>, X |-> <<0>>, Y |-> <<0>>] @@ l @@ st @@ fort @@ upl :
        l \in Opt("l", {<<2>>, <<>>}), st \in Opt("st", {<<0>>}),
        fort \in Opt("fort", {<<3>>, <<>>}), upl \in Opt("upl", {<<1>>})}

\* the collections: one slot, or two slots of which the second is a bare
\* descriptor
BuildingCollections ==
    {"1" :> d : d \in BuildingDescriptors}
    \cup {("1" :> d) @@ ("7" :> [id |-> <<7>>, t |-> <<2>>, X |-> <<5>>, Y |-> <<5>>]) :
            d \in BuildingDescriptors}

\* sync_with_server answered with a record that carries the collection D
SyncBuildings ==
    /\ alive = "ready" /\ cq = Idle
    /\ \E D \in BuildingCollections :
        LET x == Ok([ResponseFull EXCEPT !.buildingdata = D])
        IN  Record("sync_with_server", <<x>>, sync_with_server(Self, x, "ok"))
    /\ UNCHANGED <<alive, cq>>

NextBuildings ==
    \/ SyncBuildings
    \/ MutateServer

SpecBuildings == InitConquest /\ [][NextBuildings]_vars

\* C30: round trip of the building descriptors.  The buildingdata that the
\* mutate_server after a synchronization sends has the slot keys of the
\* collection D the synchronization received, and every field of D that was
\* present with a value that is not null is there with that value.
C30_BuildingRoundTrip ==
    [][(/\ call.op = "sync_with_server"
        /\ call.res.raised = ""
        /\ call'.op = "mutate_server"
        /\ call'.log # <<>>)
       => LET D == call.arg[1].body.buildingdata
              sent == call'.log[1].data.buildingdata
          IN  /\ IsRequest(call'.log[1], "/base/save")
              /\ DOMAIN sent = DOMAIN D
              /\ \A slot \in DOMAIN D :
                    \A f \in DOMAIN D[slot] :
                        D[slot][f] # <<>> =>
                            /\ f \in DOMAIN sent[slot]
                            /\ sent[slot][f] = D[slot][f]
      ]_vars

=============================================================================
